---- MODULE Spec2Model ----
(***************************************************************************)
(* A model of the concurrent and container code of plugdata:               *)
(*   - HeapArray / SmallArray element removal and add_unique               *)
(*     (Source/Utility/Containers.h)                                       *)
(*   - PooledPtrArray, the pooled array of owned pointers                  *)
(*     (Source/Utility/Containers.h)                                       *)
(*   - PlugDataParameter state save / load                                 *)
(*     (Source/Utility/PluginParameter.h)                                  *)
(*   - ConnectionPathUpdater, the debounced path update queue              *)
(*     (Source/Connection.h), and the StatusbarSource MIDI queues          *)
(*   - BangObject flash reset, NumberObject / ToggleObject weak references *)
(*   - the callback lock around libpd structures                           *)
(* Each subsystem has its own specification over the shared variables;     *)
(* the variables of the other subsystems stay at their initial values.     *)
(***************************************************************************)
EXTENDS Integers, Sequences, FiniteSets, TLC

VARIABLES
    arrCls,     \* the class of the array under test: "heap" (HeapArray<T>) or "small" (SmallArray<T>)
    arr,        \* its elements: HeapArray::data_, or SmallArray begin()..end()
    arrLog      \* the last array operation: its input, the array before, its result

arrVars == <<arrCls, arr, arrLog>>

\* PooledPtrArray<T, BlocksPerChunk, StackSize>
VARIABLES
    data_,              \* SmallArray<T*> data_: the pointers the array holds
    reuse_list,         \* SmallArray<T*> reuse_list: addresses free for placement new
    free_list,          \* SmallArray<T*> free_list: the chunks to free() in the destructor
    num_preallocated,   \* objects still unused in the current chunk
    preallocated,       \* T* preallocated: the next unused address of the current chunk
    stackUsed,          \* slots of stackBuffer handed out
    heapTop,            \* std::allocator: the next address allocate() returns
    objState,           \* per address: "raw", "live" (constructed), "dead" (destroyed)
    poolUB,             \* undefined behaviour has happened: anything may follow
    poolOp              \* the last operation on the array

poolVars == <<data_, reuse_list, free_list, num_preallocated, preallocated,
              stackUsed, heapTop, objState, poolUB, poolOp>>

\* NumberObject / ToggleObject and the libpd objects they refer to
VARIABLES
    guiCls,         \* the class of the GUI object under test: "NumberObject" or "ToggleObject"
    weak,           \* what resolves: pd::WeakReference ptr of the number box (nbx), of the toggle (tgl), cnv->patch (patch)
    numbox,         \* the t_my_numbox in libpd (its memory, also after the object was deleted)
    numberObject,   \* NumberObject members: value, min, max, widthProperty, heightProperty, logHeight, logMode, input range
    toggle,         \* the t_toggle in libpd, and how many values it has sent to its outlet
    toggleObj       \* ToggleObject members: value, toggleState, alreadyToggled, nonZero, sizeProperty

guiVars == <<guiCls, weak, numbox, numberObject, toggle, toggleObj>>

\* PlugDataParameter state save / load
VARIABLES
    param,      \* parameters[1], the PlugDataParameter: its members
    volume,     \* parameters[0], the volume parameter: its normalised value
    xml,        \* the XmlElement written by saveStateInformation: child id -> attribute -> value
    paramLog    \* the last save / load: the parameter it saved, the parameter before the load, the XML it read

paramVars == <<param, volume, xml, paramLog>>

\* ConnectionPathUpdater, StatusbarSource, BangObject
VARIABLES
    connectionUpdateQueue,  \* ConnectionPathUpdater::connectionUpdateQueue, front first
    pathTimer,              \* the juce::Timer of ConnectionPathUpdater: running, milliseconds left
    connAlive,              \* which Connection components exist
    pathLog,                \* pushPathState calls since the last flush, time since the last push, the last operation
    midiQueues,             \* StatusbarSource::lastMidiSent, lastMidiReceived
    queueThreads,           \* per queue: the threads that have enqueued, the threads that have dequeued
    bang                    \* BangObject: exists, bangState, pending flash resets, what a reset did after destruction

queueVars == <<connectionUpdateQueue, pathTimer, connAlive, pathLog, midiQueues, queueThreads, bang>>

\* the callback lock of the audio processor
VARIABLES
    callbackLock,   \* the thread inside pd->getCallbackLock() / lockAudioThread(): "none", "ui" or "audio"
    uiSteps,        \* the steps the message thread has left in the function it runs
    audioSteps,     \* the steps the audio thread has left in its callback
    queuedFloats    \* functions PlugDataParameter::setValue has enqueued and that have not run yet

lockVars == <<callbackLock, uiSteps, audioSteps, queuedFloats>>

\* SmallArray storage: size, capacity, growth
VARIABLES
    growCall,   \* the last getNewCapacity call: its Size_T, its arguments, what it returned or threw
    small,      \* two SmallArrays: elements, Capacity, whether the storage is the inline one
    smallLog    \* the last SmallArray operation: whether it threw, the growths it made

smallVars == <<growCall, small, smallLog>>

\* OfflineObjectRenderer::stripConnections
VARIABLES
    stripCall   \* the last call: the patch, what it returned, what it returned for that result

stripVars == <<stripCall>>

\* BangObject: flash and drag gesture; the drag gesture of ToggleObject
VARIABLES
    bng,        \* the BangObject: bangState, alreadyBanged, bangHold, bangInterrupt, time since lastBang
    bngTimers,  \* the delays left of the callbacks handed to Timer::callAfterDelay
    bngLog,     \* the last handler of the BangObject: whether it ran trigger, what trigger found and scheduled
    dragLog     \* per class: the last mouseDown / untoggleObject, and the toggleObject calls and sends since

bngVars == <<bng, bngTimers, bngLog, dragLog>>

\* what the operations of one subsystem leave alone
notArrVars == <<poolVars, guiVars, paramVars, queueVars, lockVars, smallVars, stripVars, bngVars>>
notPoolVars == <<arrVars, guiVars, paramVars, queueVars, lockVars, smallVars, stripVars, bngVars>>
notGuiVars == <<arrVars, poolVars, paramVars, queueVars, lockVars, smallVars, stripVars, bngVars>>
notParamVars == <<arrVars, poolVars, guiVars, queueVars, lockVars, smallVars, stripVars, bngVars>>
notQueueVars == <<arrVars, poolVars, guiVars, paramVars, lockVars, smallVars, stripVars, bngVars>>
notLockVars == <<arrVars, poolVars, guiVars, paramVars, queueVars, smallVars, stripVars, bngVars>>
notSmallVars == <<arrVars, poolVars, guiVars, paramVars, queueVars, lockVars, stripVars, bngVars>>
notStripVars == <<arrVars, poolVars, guiVars, paramVars, queueVars, lockVars, smallVars, bngVars>>
notBngVars == <<arrVars, poolVars, guiVars, paramVars, queueVars, lockVars, smallVars, stripVars>>

\* what the drag gesture handlers of ToggleObject leave alone
notGuiDragVars == <<arrVars, poolVars, paramVars, queueVars, lockVars, smallVars, stripVars, bng, bngTimers, bngLog>>

vars == <<arrVars, poolVars, guiVars, paramVars, queueVars, lockVars, smallVars, stripVars, bngVars>>

(***************************************************************************)
(* Bounds of the model                                                     *)
(***************************************************************************)
MaxLen == 3
MaxElem == 2
\* PooledPtrArray: the most pointers held, and the addresses the allocator has
MaxPool == 2
MaxAddr == 5

Elems == 1..MaxElem
\* size_t arguments: indices 0-based as in the source, one past MaxLen included
Indices == 0..(MaxLen + 1)

Range(s) == {s[i] : i \in 1..Len(s)}

Min2(a, b) == IF a < b THEN a ELSE b
Max2(a, b) == IF a > b THEN a ELSE b

(***************************************************************************)
(* <algorithm> and std::vector, as the containers use them                 *)
(***************************************************************************)
\* std::find(begin, end, v): the 0-based position of the first element equal
\* to v, or size (= end) when there is none
RECURSIVE FindFrom(_, _, _)
FindFrom(s, v, i) ==
    IF i >= Len(s) THEN Len(s)
    ELSE IF s[i + 1] = v THEN i
    ELSE FindFrom(s, v, i + 1)

StdFind(s, v) == FindFrom(s, v, 0)

\* std::remove(begin, end, v): moves the elements not equal to v to the front,
\* in order; returns the new logical end. The tail keeps moved-from values
\* (for the trivially copyable element types modelled: the old values).
RECURSIVE StdRemoveLoop(_, _, _, _)
StdRemoveLoop(s, v, rd, wr) ==
    IF rd >= Len(s) THEN [arr |-> s, newEnd |-> wr]
    ELSE IF s[rd + 1] # v
         THEN StdRemoveLoop([s EXCEPT ![wr + 1] = s[rd + 1]], v, rd + 1, wr + 1)
         ELSE StdRemoveLoop(s, v, rd + 1, wr)

StdRemove(s, v) == StdRemoveLoop(s, v, 0, 0)

\* std::vector<T>::erase(first, last), positions 0-based, first <= last <= size
VectorErase(s, first, last) ==
    SubSeq(s, 1, first) \o SubSeq(s, last + 1, Len(s))

(***************************************************************************)
(* SmallArrayImpl<T>::erase                                                *)
(***************************************************************************)
\* std::move(first, last, dest) within one array, dest <= first: element by
\* element, front to back
RECURSIVE MoveDown(_, _, _, _)
MoveDown(s, from, to, dest) ==
    IF from >= to THEN s
    ELSE MoveDown([s EXCEPT ![dest + 1] = s[from + 1]], from + 1, to, dest + 1)

\* iterator erase(const_iterator CI): shift all elements down one, pop_back
SmallArray_erase(s, i) ==
    LET shifted == MoveDown(s, i + 1, Len(s), i)
    IN  SubSeq(shifted, 1, Len(s) - 1)

\* iterator erase(const_iterator CS, const_iterator CE): shift the tail down
\* to CS, destroy what is left behind, set_size(I - begin())
SmallArray_eraseRange(s, cs, ce) ==
    LET shifted == MoveDown(s, ce, Len(s), cs)
        newSize == cs + (Len(s) - ce)
    IN  SubSeq(shifted, 1, newSize)

(***************************************************************************)
(* SmallArrayImpl<T>: remove_one, remove_all, remove_at, remove_range,     *)
(* add_unique. Each yields the array after the call and the value returned.*)
(***************************************************************************)
SmallArray_remove_one(s, to_find) ==
    LET it == StdFind(s, to_find)
    IN  IF it # Len(s)
        THEN [arr |-> SmallArray_erase(s, it), ret |-> TRUE]
        ELSE [arr |-> s, ret |-> FALSE]

SmallArray_remove_all(s, to_find) ==
    LET initial_size == Len(s)
        r == StdRemove(s, to_find)
        after == SmallArray_eraseRange(r.arr, r.newEnd, Len(r.arr))
    IN  [arr |-> after, ret |-> Len(after) < initial_size]

SmallArray_remove_at(s, index) ==
    IF index < Len(s)
    THEN [arr |-> SmallArray_erase(s, index), ret |-> TRUE]
    ELSE [arr |-> s, ret |-> FALSE]

SmallArray_remove_range(s, start, end) ==
    IF start >= end \/ start >= Len(s) \/ end > Len(s)
    THEN [arr |-> s, ret |-> FALSE]
    ELSE [arr |-> SmallArray_eraseRange(s, start, end), ret |-> TRUE]

SmallArray_add_unique_dup(s, to_add) ==
    IF StdFind(s, to_add) = Len(s) \/ StdFind(s, to_add) = Len(s) - 1
    THEN [arr |-> Append(s, to_add), ret |-> TRUE]
    ELSE [arr |-> s, ret |-> FALSE]

SmallArray_add_unique(s, to_add) ==
    IF StdFind(s, to_add) = Len(s)
    THEN [arr |-> Append(s, to_add), ret |-> TRUE]
    ELSE [arr |-> s, ret |-> FALSE]

(***************************************************************************)
(* HeapArray<T>: the same operations over std::vector                      *)
(***************************************************************************)
HeapArray_remove_one(s, to_find) ==
    LET it == StdFind(s, to_find)
    IN  IF it # Len(s)
        THEN [arr |-> VectorErase(s, it, it + 1), ret |-> TRUE]
        ELSE [arr |-> s, ret |-> FALSE]

HeapArray_remove_all_le(s, to_find) ==
    LET initial_size == Len(s)
        r == StdRemove(s, to_find)
        after == VectorErase(r.arr, r.newEnd, Len(r.arr))
    IN  [arr |-> after, ret |-> Len(after) <= initial_size]

HeapArray_remove_all(s, to_find) ==
    LET initial_size == Len(s)
        r == StdRemove(s, to_find)
        after == VectorErase(r.arr, r.newEnd, Len(r.arr))
    IN  [arr |-> after, ret |-> Len(after) < initial_size]

HeapArray_remove_at(s, index) ==
    IF index < Len(s)
    THEN [arr |-> VectorErase(s, index, index + 1), ret |-> TRUE]
    ELSE [arr |-> s, ret |-> FALSE]

HeapArray_remove_range(s, start, end) ==
    IF start >= end \/ start >= Len(s) \/ end > Len(s)
    THEN [arr |-> s, ret |-> FALSE]
    ELSE [arr |-> VectorErase(s, start, end), ret |-> TRUE]

HeapArray_add_unique(s, to_find) ==
    IF StdFind(s, to_find) = Len(s)
    THEN [arr |-> Append(s, to_find), ret |-> TRUE]
    ELSE [arr |-> s, ret |-> FALSE]

(***************************************************************************)
(* Array actions. arrLog records the call so that its result can be        *)
(* compared with the array before it.                                      *)
(***************************************************************************)
NoArrLog == [op |-> "none", a |-> 0, b |-> 0, before |-> <<>>, ret |-> FALSE,
             uniq |-> TRUE]

ArrInit ==
    /\ arrCls \in {"heap", "small"}
    /\ arr = <<>>
    /\ arrLog = NoArrLog

\* uniq: the array has so far been filled through add_unique only
Logged(op, a, b, ret) ==
    [op |-> op, a |-> a, b |-> b, before |-> arr, ret |-> ret,
     uniq |-> arrLog.uniq /\ op # "add"]

\* void add(T const&): push_back
HeapAdd(x) ==
    /\ arrCls = "heap"
    /\ Len(arr) < MaxLen
    /\ arr' = Append(arr, x)
    /\ arrLog' = Logged("add", x, 0, TRUE)
    /\ UNCHANGED <<arrCls, notArrVars>>

SmallAdd(x) ==
    /\ arrCls = "small"
    /\ Len(arr) < MaxLen
    /\ arr' = Append(arr, x)
    /\ arrLog' = Logged("add", x, 0, TRUE)
    /\ UNCHANGED <<arrCls, notArrVars>>

HeapAddUnique(x) ==
    /\ arrCls = "heap"
    /\ LET r == HeapArray_add_unique(arr, x)
       IN  /\ Len(r.arr) <= MaxLen
           /\ arr' = r.arr
           /\ arrLog' = Logged("add_unique", x, 0, r.ret)
    /\ UNCHANGED <<arrCls, notArrVars>>

SmallAddUnique(x) ==
    /\ arrCls = "small"
    /\ LET r == SmallArray_add_unique(arr, x)
       IN  /\ Len(r.arr) <= MaxLen
           /\ arr' = r.arr
           /\ arrLog' = Logged("add_unique", x, 0, r.ret)
    /\ UNCHANGED <<arrCls, notArrVars>>

HeapRemoveOne(x) ==
    /\ arrCls = "heap"
    /\ LET r == HeapArray_remove_one(arr, x)
       IN  /\ arr' = r.arr
           /\ arrLog' = Logged("remove_one", x, 0, r.ret)
    /\ UNCHANGED <<arrCls, notArrVars>>

SmallRemoveOne(x) ==
    /\ arrCls = "small"
    /\ LET r == SmallArray_remove_one(arr, x)
       IN  /\ arr' = r.arr
           /\ arrLog' = Logged("remove_one", x, 0, r.ret)
    /\ UNCHANGED <<arrCls, notArrVars>>

HeapRemoveAll(x) ==
    /\ arrCls = "heap"
    /\ LET r == HeapArray_remove_all(arr, x)
       IN  /\ arr' = r.arr
           /\ arrLog' = Logged("remove_all", x, 0, r.ret)
    /\ UNCHANGED <<arrCls, notArrVars>>

SmallRemoveAll(x) ==
    /\ arrCls = "small"
    /\ LET r == SmallArray_remove_all(arr, x)
       IN  /\ arr' = r.arr
           /\ arrLog' = Logged("remove_all", x, 0, r.ret)
    /\ UNCHANGED <<arrCls, notArrVars>>

HeapRemoveAt(i) ==
    /\ arrCls = "heap"
    /\ LET r == HeapArray_remove_at(arr, i)
       IN  /\ arr' = r.arr
           /\ arrLog' = Logged("remove_at", i, 0, r.ret)
    /\ UNCHANGED <<arrCls, notArrVars>>

SmallRemoveAt(i) ==
    /\ arrCls = "small"
    /\ LET r == SmallArray_remove_at(arr, i)
       IN  /\ arr' = r.arr
           /\ arrLog' = Logged("remove_at", i, 0, r.ret)
    /\ UNCHANGED <<arrCls, notArrVars>>

HeapRemoveRange(s, e) ==
    /\ arrCls = "heap"
    /\ LET r == HeapArray_remove_range(arr, s, e)
       IN  /\ arr' = r.arr
           /\ arrLog' = Logged("remove_range", s, e, r.ret)
    /\ UNCHANGED <<arrCls, notArrVars>>

SmallRemoveRange(s, e) ==
    /\ arrCls = "small"
    /\ LET r == SmallArray_remove_range(arr, s, e)
       IN  /\ arr' = r.arr
           /\ arrLog' = Logged("remove_range", s, e, r.ret)
    /\ UNCHANGED <<arrCls, notArrVars>>

ArrNext ==
    \/ \E x \in Elems : HeapAdd(x)
    \/ \E x \in Elems : SmallAdd(x)
    \/ \E x \in Elems : HeapAddUnique(x)
    \/ \E x \in Elems : SmallAddUnique(x)
    \/ \E x \in Elems : HeapRemoveOne(x)
    \/ \E x \in Elems : SmallRemoveOne(x)
    \/ \E x \in Elems : HeapRemoveAll(x)
    \/ \E x \in Elems : SmallRemoveAll(x)
    \/ \E i \in Indices : HeapRemoveAt(i)
    \/ \E i \in Indices : SmallRemoveAt(i)
    \/ \E s \in Indices : \E e \in Indices : HeapRemoveRange(s, e)
    \/ \E s \in Indices : \E e \in Indices : SmallRemoveRange(s, e)

(***************************************************************************)
(* C9: remove_one, remove_all, remove_at and remove_range return true      *)
(* exactly when they removed at least one element. remove_one removes only *)
(* the first occurrence, remove_all every occurrence; an absent element,   *)
(* an index >= size or an invalid range (start >= end, start >= size,      *)
(* end > size) returns false and leaves the array unchanged; the elements  *)
(* that remain keep their relative order.                                  *)
(***************************************************************************)
\* s without the elements at the 0-based positions in drop, order kept
Without(s, drop) ==
    LET keep == {i \in 0..(Len(s) - 1) : i \notin drop}
        \* the n-th kept position, counting from 1
        nth(n) == CHOOSE i \in keep : Cardinality({j \in keep : j < i}) = n - 1
    IN  [n \in 1..Cardinality(keep) |-> s[nth(n) + 1]]

FirstPos(s, x) == CHOOSE i \in 0..(Len(s) - 1) :
                      s[i + 1] = x /\ \A j \in 0..(i - 1) : s[j + 1] # x

RemovedAsSpecified ==
    LET b == arrLog.before
        x == arrLog.a
        n == Len(b)
    IN  CASE arrLog.op = "remove_one" ->
               IF x \in Range(b)
               THEN arrLog.ret /\ arr = Without(b, {FirstPos(b, x)})
               ELSE ~arrLog.ret /\ arr = b
          [] arrLog.op = "remove_all" ->
               /\ arrLog.ret = (x \in Range(b))
               /\ arr = Without(b, {i \in 0..(n - 1) : b[i + 1] = x})
          [] arrLog.op = "remove_at" ->
               IF arrLog.a < n
               THEN arrLog.ret /\ arr = Without(b, {arrLog.a})
               ELSE ~arrLog.ret /\ arr = b
          [] arrLog.op = "remove_range" ->
               IF arrLog.a >= arrLog.b \/ arrLog.a >= n \/ arrLog.b > n
               THEN ~arrLog.ret /\ arr = b
               ELSE arrLog.ret /\ arr = Without(b, arrLog.a..(arrLog.b - 1))
          [] OTHER -> TRUE

C9_RemoveReturnsWhetherRemoved ==
    /\ RemovedAsSpecified
    /\ arrLog.op \in {"remove_one", "remove_all", "remove_at", "remove_range"}
           => (arrLog.ret <=> Len(arr) < Len(arrLog.before))

\* a remove_all that removed two occurrences from between other elements
C9_Witness ==
    /\ arrLog.op = "remove_all"
    /\ arrLog.ret
    /\ Len(arrLog.before) = Len(arr) + 2
    /\ Len(arr) >= 1

(***************************************************************************)
(* C10: add_unique appends the element and returns true exactly when no    *)
(* equal element is present, otherwise returns false and leaves the array  *)
(* unchanged; an array filled through add_unique only never holds two      *)
(* equal elements.                                                         *)
(***************************************************************************)
NoDuplicates(s) == \A i, j \in 1..Len(s) : s[i] = s[j] => i = j

C10_AddUnique ==
    /\ arrLog.op = "add_unique" =>
          IF \E i \in 1..Len(arrLog.before) : arrLog.before[i] = arrLog.a
          THEN ~arrLog.ret /\ arr = arrLog.before
          ELSE /\ arrLog.ret
               /\ Len(arr) = Len(arrLog.before) + 1
               /\ arr[Len(arr)] = arrLog.a
               /\ \A i \in 1..Len(arrLog.before) : arr[i] = arrLog.before[i]
    /\ arrLog.uniq => NoDuplicates(arr)

\* add_unique refused an element that is already there
C10_Witness ==
    /\ arrLog.op = "add_unique"
    /\ ~arrLog.ret
    /\ Len(arr) >= 2
    /\ arrLog.uniq


(***************************************************************************)
(* PooledPtrArray<T, BlocksPerChunk, StackSize>                            *)
(* Addresses are numbers: 1..StackSize are the slots of stackBuffer, the   *)
(* allocator hands out StackSize+1, StackSize+2, ... in chunks.            *)
(***************************************************************************)
\* the template arguments of the instance modelled
BlocksPerChunk == 2
StackSize == 1

Addrs == 1..MaxAddr

PoolInit ==
    /\ data_ = <<>>
    /\ reuse_list = <<>>
    /\ free_list = <<>>
    /\ num_preallocated = 0
    /\ preallocated = 0
    /\ stackUsed = 0
    /\ heapTop = StackSize + 1
    /\ objState = [a \in Addrs |-> "raw"]
    /\ poolUB = FALSE
    /\ poolOp = "none"

\* The state of the pool as a record, so that the helpers compose as the
\* member functions do.
PoolState ==
    [data_ |-> data_, reuse_list |-> reuse_list, free_list |-> free_list,
     num_preallocated |-> num_preallocated, preallocated |-> preallocated,
     stackUsed |-> stackUsed, heapTop |-> heapTop, objState |-> objState,
     ub |-> poolUB, ptr |-> 0]

\* new (ptr) T(...): placement new. Constructing over a live object is not
\* what the pool means to do; it is recorded as an overwrite.
Construct(st, a) ==
    IF a \notin Addrs THEN [st EXCEPT !.ptr = a]   \* beyond the model: see Fits
    ELSE [st EXCEPT !.objState[a] = "live", !.ptr = a,
                    !.ub = st.ub \/ st.objState[a] = "live"]

\* ptr->~T(): calling the destructor of an object that is not alive is
\* undefined behaviour
Destruct(st, a) ==
    [st EXCEPT !.objState[a] = "dead", !.ub = st.ub \/ st.objState[a] # "live"]

\* void preallocate(int amount)
RECURSIVE AddPreallocatedToReuse(_, _)
AddPreallocatedToReuse(st, i) ==
    IF i >= st.num_preallocated THEN st
    ELSE AddPreallocatedToReuse(
             [st EXCEPT !.reuse_list = Append(@, st.preallocated + i)], i + 1)

preallocate(st, amount) ==
    IF amount <= st.num_preallocated \/ amount <= Len(st.reuse_list) THEN st
    ELSE LET moved == AddPreallocatedToReuse(st, 0)
         IN  [moved EXCEPT !.num_preallocated = amount,
                           !.preallocated = moved.heapTop,
                           !.heapTop = moved.heapTop + amount,
                           !.free_list = Append(@, moved.heapTop)]

\* T* allocate_and_construct(Args&&...): the address is left in .ptr
allocate_and_construct(st) ==
    IF StackSize > 0 /\ st.stackUsed < StackSize
    THEN Construct([st EXCEPT !.stackUsed = @ + 1], 1 + st.stackUsed)
    ELSE IF Len(st.reuse_list) # 0
    THEN LET p == st.reuse_list[Len(st.reuse_list)]
         IN  Construct([st EXCEPT !.reuse_list = SubSeq(@, 1, Len(@) - 1)], p)
    ELSE LET pre == IF st.num_preallocated = 0 THEN preallocate(st, BlocksPerChunk)
                    ELSE st
         IN  Construct([pre EXCEPT !.num_preallocated = @ - 1,
                                   !.preallocated = @ + 1], pre.preallocated)

\* void deallocate_and_destroy(T* ptr)
deallocate_and_destroy(st, p) ==
    IF p # 0
    THEN LET d == Destruct(st, p)
         IN  [d EXCEPT !.reuse_list = Append(@, p)]
    ELSE st

\* How far the allocator can go within the model's addresses
Fits(st) == st.heapTop <= MaxAddr + 1

Commit(st, op) ==
    /\ Fits(st)
    /\ Len(st.data_) <= MaxPool
    /\ data_' = st.data_
    /\ reuse_list' = st.reuse_list
    /\ free_list' = st.free_list
    /\ num_preallocated' = st.num_preallocated
    /\ preallocated' = st.preallocated
    /\ stackUsed' = st.stackUsed
    /\ heapTop' = st.heapTop
    /\ objState' = st.objState
    /\ poolUB' = st.ub
    /\ poolOp' = op
    /\ UNCHANGED notPoolVars

PoolUsable == ~poolUB /\ poolOp # "destructor"

\* T* add(Args&&...)
add ==
    /\ PoolUsable
    /\ LET st == allocate_and_construct(PoolState)
       IN  Commit([st EXCEPT !.data_ = Append(@, st.ptr)], "add")

\* void insert(int index, Args&&...)
insert(index) ==
    /\ PoolUsable
    /\ index <= Len(data_)
    /\ LET st == allocate_and_construct(PoolState)
       IN  Commit([st EXCEPT !.data_ = SubSeq(@, 1, index) \o <<st.ptr>>
                                        \o SubSeq(@, index + 1, Len(@))], "insert")

\* bool remove_one(T const* to_find): the element found is destroyed and its
\* address put on the reuse list; data_ is not touched
remove_one(to_find) ==
    /\ PoolUsable
    /\ LET it == StdFind(data_, to_find)
       IN  IF it # Len(data_)
           THEN Commit(deallocate_and_destroy(PoolState, data_[it + 1]), "remove_one")
           ELSE Commit(PoolState, "remove_one_absent")

\* bool remove_at(size_t index)
remove_at(index) ==
    /\ PoolUsable
    /\ IF index < Len(data_)
       THEN LET st == deallocate_and_destroy(PoolState, data_[index + 1])
            IN  Commit([st EXCEPT !.data_ = SmallArray_erase(@, index)], "remove_at")
       ELSE Commit(PoolState, "remove_at_absent")

\* void erase(size_t index): data_.erase(data_.begin() + index)
erase(index) ==
    /\ PoolUsable
    /\ index < Len(data_)
    /\ Commit([PoolState EXCEPT !.data_ = SmallArray_erase(@, index)], "erase")

\* int remove_if(PredicateType&&): from the back, erase(i) where the
\* predicate holds; the predicate is the set of pointers it accepts
RECURSIVE RemoveIfLoop(_, _, _)
RemoveIfLoop(d, pred, i) ==
    IF i < 0 THEN d
    ELSE IF d[i + 1] \in pred
         THEN RemoveIfLoop(SmallArray_erase(d, i), pred, i - 1)
         ELSE RemoveIfLoop(d, pred, i - 1)

remove_if(pred) ==
    /\ PoolUsable
    /\ Commit([PoolState EXCEPT !.data_ = RemoveIfLoop(@, pred, Len(@) - 1)],
              "remove_if")

\* void reserve(size_t capacity): data_.reserve(capacity) does not change the
\* elements; then preallocate(max(capacity - size(), 0))
reserve(capacity) ==
    /\ PoolUsable
    /\ Commit(preallocate(PoolState, Max2(capacity - Len(data_), 0)), "reserve")

\* void clear()
RECURSIVE DestroyAll(_, _)
DestroyAll(st, i) ==
    IF i > Len(st.data_) THEN st
    ELSE DestroyAll(deallocate_and_destroy(st, st.data_[i]), i + 1)

clear ==
    /\ PoolUsable
    /\ LET st == DestroyAll(PoolState, 1)
       IN  Commit([st EXCEPT !.data_ = <<>>], "clear")

\* ~PooledPtrArray(): clear(), then free() every chunk
PoolDestructor ==
    /\ PoolUsable
    /\ LET st == DestroyAll(PoolState, 1)
       IN  Commit([st EXCEPT !.data_ = <<>>, !.free_list = <<>>], "destructor")

PoolNext ==
    \/ add
    \/ \E i \in 0..MaxPool : insert(i)
    \/ \E a \in Addrs : remove_one(a)
    \/ \E i \in 0..MaxPool : remove_at(i)
    \/ \E i \in 0..MaxPool : erase(i)
    \/ \E pred \in SUBSET Range(data_) : remove_if(pred)
    \/ \E c \in 0..(MaxPool + 1) : reserve(c)
    \/ clear
    \/ PoolDestructor

(***************************************************************************)
(* C8: after any sequence of add, insert, remove_one, remove_at, erase,    *)
(* remove_if, reserve and clear, every pointer in the array refers to an   *)
(* object that was constructed and has not been destroyed, no address is   *)
(* both in the array and in the reuse list, no two elements share an       *)
(* address, and once clear or the destructor has run every constructed     *)
(* object has been destroyed exactly once.                                 *)
(***************************************************************************)
C8_PoolOwnsLiveObjects ==
    /\ ~poolUB
    /\ \A i \in 1..Len(data_) : objState[data_[i]] = "live"
    /\ \A i \in 1..Len(data_) : \A j \in 1..Len(reuse_list) : data_[i] # reuse_list[j]
    /\ \A i, j \in 1..Len(data_) : data_[i] = data_[j] => i = j
    /\ poolOp \in {"clear", "destructor"} => \A a \in Addrs : objState[a] # "live"

\* The parts of C8 taken one at a time, to see which operation breaks which
C8_NoDanglingPointer ==
    \A i \in 1..Len(data_) : objState[data_[i]] = "live"

C8_NoLeakAfterClear ==
    poolOp \in {"clear", "destructor"} => \A a \in Addrs : objState[a] # "live"

(***************************************************************************)
(* NumberObject and ToggleObject (unnamed/part_004).  Each holds a         *)
(* pd::WeakReference to its libpd object; ptr.get<T>() yields null once    *)
(* libpd has deleted the object.  Floats are modelled by integers, with    *)
(* two values standing for -infinity and +infinity.                        *)
(***************************************************************************)
NegInf == -1000000
PosInf == 1000000
MaxSent == 2

EmptyRect == [x |-> 0, y |-> 0, w |-> 0, h |-> 0]
GuiRects == {[x |-> 5, y |-> 5, w |-> 58, h |-> 21]}

GuiInit ==
    /\ guiCls \in {"NumberObject", "ToggleObject"}
    /\ weak = [nbx |-> TRUE, tgl |-> TRUE, patch |-> TRUE]
    /\ numbox = [x_val |-> 0, x_min |-> 0, x_max |-> 2, x_numwidth |-> 5, x_w |-> 54, x_h |-> 14,
                 x_fontsize |-> 10, x_font_style |-> 0, x_log_height |-> 256, x_lin0_log1 |-> FALSE,
                 x |-> 0, y |-> 0]
    /\ numberObject = [value |-> 0, min |-> NegInf, max |-> PosInf, widthProperty |-> 0,
                       heightProperty |-> 0, logHeight |-> 0, logMode |-> FALSE]
    /\ toggle = [x_on |-> 0, x_nonzero |-> 1, x_w |-> 25, x_h |-> 25, sent |-> 0]
    /\ toggleObj = [value |-> 0, toggleState |-> FALSE, alreadyToggled |-> FALSE,
                    nonZero |-> 1, sizeProperty |-> 25]

\* int f = 31; if (font_style == 1) f = 27; else if (font_style == 2) f = 25;
FontFactor == IF numbox.x_font_style = 1 THEN 27 ELSE IF numbox.x_font_style = 2 THEN 25 ELSE 31

\* conversion of a quotient to int: truncation towards zero
TruncDiv(n, d) == IF n >= 0 THEN n \div d ELSE -((-n) \div d)

NumberObject_getValue == IF weak.nbx THEN numbox.x_val ELSE 0

NumberObject_getMinimum == IF weak.nbx THEN numbox.x_min ELSE NegInf

NumberObject_getMaximum == IF weak.nbx THEN numbox.x_max ELSE PosInf

NumberObject_getFontWidth == IF weak.nbx THEN numbox.x_fontsize ELSE 10

NumberObject_calcFontWidth(numWidth) ==
    IF weak.nbx
    THEN TruncDiv(numbox.x_fontsize * FontFactor * numWidth, 36) + TruncDiv(numbox.x_h, 2) + 4
    ELSE 14

\* -(18.0f * (8.0f + x_h - 2 * width)) / (x_fontsize * f) + 1, converted to int
NumberObject_calcNumWidth(width) ==
    IF weak.nbx
    THEN TruncDiv(18 * (2 * width - 8 - numbox.x_h) + numbox.x_fontsize * FontFactor,
                  numbox.x_fontsize * FontFactor)
    ELSE 1

\* pd::Interface::getObjectBounds reports the position and size libpd holds
NumberObject_getPdBounds ==
    IF weak.nbx
    THEN IF ~weak.patch
         THEN EmptyRect
         ELSE [x |-> numbox.x, y |-> numbox.y,
               w |-> NumberObject_calcFontWidth(Max2(numbox.x_numwidth, 1)) + 1,
               h |-> numbox.x_h + 1]
    ELSE EmptyRect

\* the t_my_numbox after setPdBounds(b)
NumberObject_setPdBounds(b) ==
    IF weak.nbx
    THEN IF ~weak.patch
         THEN numbox
         ELSE [numbox EXCEPT !.x = b.x, !.y = b.y,
                             !.x_numwidth = NumberObject_calcNumWidth(b.w - 1),
                             !.x_w = b.w - 1, !.x_h = b.h - 1]
    ELSE numbox

\* setMinimum without the check of the weak reference
NumberObject_setMinimum_unchecked(value) ==
    [numbox EXCEPT !.x_min = value]

\* the t_my_numbox after setMinimum(value)
NumberObject_setMinimum(value) ==
    IF weak.nbx THEN [numbox EXCEPT !.x_min = value] ELSE numbox

NumberObject_setMaximum(value) ==
    IF weak.nbx THEN [numbox EXCEPT !.x_max = value] ELSE numbox

NumberObject_update ==
    /\ guiCls = "NumberObject"
    /\ numberObject' = [numberObject EXCEPT
            !.value = NumberObject_getValue,
            !.min = NumberObject_getMinimum,
            !.max = NumberObject_getMaximum,
            !.widthProperty = IF weak.nbx THEN numbox.x_numwidth ELSE @,
            !.heightProperty = IF weak.nbx THEN numbox.x_h ELSE @,
            !.logMode = IF weak.nbx THEN numbox.x_lin0_log1 ELSE @,
            !.logHeight = IF weak.nbx THEN numbox.x_log_height ELSE @]
    /\ UNCHANGED <<guiCls, weak, numbox, toggle, toggleObj, notGuiVars>>

\* updateSizeProperty, with b the bounds object->getObjectBounds() returns
NumberObject_updateSizeProperty(b) ==
    /\ guiCls = "NumberObject"
    /\ numbox' = NumberObject_setPdBounds(b)
    /\ numberObject' = IF weak.nbx
                       THEN [numberObject EXCEPT !.widthProperty = numbox'.x_numwidth,
                                                 !.heightProperty = numbox'.x_h]
                       ELSE numberObject
    /\ UNCHANGED <<guiCls, weak, toggle, toggleObj, notGuiVars>>

\* the property panel sets the Value `which` to v and propertyChanged runs;
\* minH is constrainer->getMinimumHeight()
NumberObject_propertyChanged(which, v, minH) ==
    /\ guiCls = "NumberObject"
    /\ CASE which = "widthProperty" ->
              LET numWidth == Max2(v, 1)
                  width == NumberObject_calcFontWidth(numWidth) + 1
              IN /\ numberObject' = [numberObject EXCEPT !.widthProperty = numWidth]
                 /\ numbox' = IF weak.nbx
                              THEN [numbox EXCEPT !.x_numwidth = numWidth, !.x_w = width]
                              ELSE numbox
         [] which = "heightProperty" ->
              LET height == Max2(v, minH)
              IN /\ numberObject' = [numberObject EXCEPT !.heightProperty = height]
                 /\ numbox' = IF weak.nbx THEN [numbox EXCEPT !.x_h = height] ELSE numbox
         [] which = "min" ->
              /\ numberObject' = [numberObject EXCEPT !.min = v]
              /\ numbox' = NumberObject_setMinimum(v)
         [] which = "max" ->
              /\ numberObject' = [numberObject EXCEPT !.max = v]
              /\ numbox' = NumberObject_setMaximum(v)
         [] which = "logHeight" ->
              /\ numberObject' = [numberObject EXCEPT !.logHeight = v]
              /\ numbox' = IF weak.nbx THEN [numbox EXCEPT !.x_log_height = v] ELSE numbox
         [] which = "logMode" ->
              /\ numberObject' = [numberObject EXCEPT !.logMode = (v # 0)]
              /\ numbox' = IF weak.nbx THEN [numbox EXCEPT !.x_lin0_log1 = (v # 0)] ELSE numbox
    /\ UNCHANGED <<guiCls, weak, toggle, toggleObj, notGuiVars>>

ToggleObject_getValue == IF weak.tgl THEN toggle.x_on ELSE 0

\* the t_toggle after sendToggleValue(newValue): the "set" message stores the
\* value, outlet_float sends it
ToggleObject_sendToggleValue(newValue) ==
    IF weak.tgl
    THEN [toggle EXCEPT !.x_on = newValue, !.sent = Min2(@ + 1, MaxSent)]
    ELSE toggle

\* the drag gesture seen from outside: the last mouseDown with the left
\* button or untoggleObject, and the toggleObject calls and what they sent
\* since then
NoGesture == [lastEvent |-> "none", toggles |-> 0, sends |-> 0]

Pressed == [lastEvent |-> "mouseDown", toggles |-> 0, sends |-> 0]

Untoggled == [lastEvent |-> "untoggleObject", toggles |-> 0, sends |-> 0]

Toggled(g, sent) == [g EXCEPT !.toggles = Min2(@ + 1, 2), !.sends = Min2(@ + sent, 2)]

\* mouseDown with the left button: toggles whatever alreadyToggled says
ToggleObject_mouseDown ==
    LET newValue == IF toggleObj.value # 0 THEN 0 ELSE toggleObj.nonZero
    IN /\ guiCls = "ToggleObject"
       /\ toggle' = ToggleObject_sendToggleValue(newValue)
       /\ toggleObj' = [toggleObj EXCEPT !.value = newValue, !.toggleState = (newValue # 0),
                                         !.alreadyToggled = TRUE]
       /\ dragLog' = [dragLog EXCEPT !.tgl = Pressed]
       /\ UNCHANGED <<guiCls, weak, numbox, numberObject, notGuiDragVars>>

ToggleObject_toggleObject ==
    LET newValue == IF toggleObj.value # 0 THEN 0 ELSE toggleObj.nonZero
    IN /\ guiCls = "ToggleObject"
       /\ IF ~toggleObj.alreadyToggled
          THEN /\ toggle' = ToggleObject_sendToggleValue(newValue)
               /\ toggleObj' = [toggleObj EXCEPT !.value = newValue,
                                                 !.toggleState = (newValue # 0),
                                                 !.alreadyToggled = TRUE]
               /\ dragLog' = [dragLog EXCEPT !.tgl = Toggled(@, IF weak.tgl THEN 1 ELSE 0)]
          ELSE /\ UNCHANGED <<toggle, toggleObj>>
               /\ dragLog' = [dragLog EXCEPT !.tgl = Toggled(@, 0)]
       /\ UNCHANGED <<guiCls, weak, numbox, numberObject, notGuiDragVars>>

ToggleObject_untoggleObject ==
    /\ guiCls = "ToggleObject"
    /\ toggleObj' = [toggleObj EXCEPT !.alreadyToggled = FALSE]
    /\ dragLog' = [dragLog EXCEPT !.tgl = Untoggled]
    /\ UNCHANGED <<guiCls, weak, numbox, numberObject, toggle, notGuiDragVars>>

\* the property panel sets sizeProperty or nonZero to v and valueChanged runs;
\* minW is constrainer->getMinimumWidth()
ToggleObject_valueChanged(which, v, minW) ==
    /\ guiCls = "ToggleObject"
    /\ CASE which = "sizeProperty" ->
              LET size == Max2(v, minW)
              IN /\ toggleObj' = [toggleObj EXCEPT !.sizeProperty = size]
                 /\ toggle' = IF weak.tgl THEN [toggle EXCEPT !.x_w = size, !.x_h = size]
                              ELSE toggle
         [] which = "nonZero" ->
              /\ toggleObj' = [toggleObj EXCEPT !.nonZero = v]
              /\ toggle' = IF weak.tgl THEN [toggle EXCEPT !.x_nonzero = v] ELSE toggle
    /\ UNCHANGED <<guiCls, weak, numbox, numberObject, notGuiVars>>

ToggleObject_update ==
    /\ guiCls = "ToggleObject"
    /\ toggleObj' = [toggleObj EXCEPT
            !.sizeProperty = IF weak.tgl THEN toggle.x_w ELSE @,
            !.nonZero = IF weak.tgl THEN toggle.x_nonzero ELSE @,
            !.value = ToggleObject_getValue,
            !.toggleState = (ToggleObject_getValue # 0)]
    /\ UNCHANGED <<guiCls, weak, numbox, numberObject, toggle, notGuiVars>>

\* libpd handles messages to the live number box: a float and a font size
PdMessage(f, fontsize) ==
    /\ guiCls = "NumberObject" /\ weak.nbx
    /\ numbox' = [numbox EXCEPT !.x_val = f, !.x_fontsize = fontsize]
    /\ UNCHANGED <<guiCls, weak, numberObject, toggle, toggleObj, notGuiVars>>

\* libpd deletes an object, or the patch is closed: the weak reference no
\* longer resolves
PdDelete(which) ==
    /\ which = "nbx" => guiCls = "NumberObject"
    /\ which = "tgl" => guiCls = "ToggleObject"
    /\ weak[which]
    /\ weak' = [weak EXCEPT ![which] = FALSE]
    /\ UNCHANGED <<guiCls, numbox, numberObject, toggle, toggleObj, notGuiVars>>

GuiNext ==
    \/ NumberObject_update
    \/ \E b \in GuiRects : NumberObject_updateSizeProperty(b)
    \/ NumberObject_propertyChanged("widthProperty", 0, 0)
    \/ \E minH \in {0, 10} : NumberObject_propertyChanged("heightProperty", 8, minH)
    \/ \E which \in {"min", "max"} : NumberObject_propertyChanged(which, 1, 0)
    \/ NumberObject_propertyChanged("logHeight", 128, 0)
    \/ NumberObject_propertyChanged("logMode", 1, 0)
    \/ ToggleObject_mouseDown
    \/ ToggleObject_toggleObject
    \/ ToggleObject_untoggleObject
    \/ \E v \in {4, 25}, minW \in {0, 8} : ToggleObject_valueChanged("sizeProperty", v, minW)
    \/ \E v \in {1, 3} : ToggleObject_valueChanged("nonZero", v, 0)
    \/ ToggleObject_update
    \/ PdMessage(3, 12)
    \/ \E which \in {"nbx", "tgl", "patch"} : PdDelete(which)

(***************************************************************************)
(* C7: once the libpd object behind a NumberObject or ToggleObject has     *)
(* been deleted, getValue returns 0, getMinimum -infinity, getMaximum      *)
(* +infinity, getPdBounds the empty rectangle, getFontWidth 10,            *)
(* calcFontWidth 14 and calcNumWidth 1, and no handler (setPdBounds,       *)
(* setMinimum, setMaximum, sendToggleValue, the property-change handlers)  *)
(* writes to the libpd object.                                             *)
(***************************************************************************)
C7_DeletedObjectGuarded ==
    /\ [](~weak.nbx =>
            /\ NumberObject_getValue = 0
            /\ NumberObject_getMinimum = NegInf
            /\ NumberObject_getMaximum = PosInf
            /\ NumberObject_getPdBounds = EmptyRect
            /\ NumberObject_getFontWidth = 10
            /\ \A n \in 1..5 : NumberObject_calcFontWidth(n) = 14
            /\ \A w \in {30, 57} : NumberObject_calcNumWidth(w) = 1)
    /\ [](~weak.tgl => ToggleObject_getValue = 0)
    /\ [][(~weak.nbx => numbox' = numbox) /\ (~weak.tgl => toggle' = toggle)]_vars

\* the number box was deleted while it held a value, a maximum and a font size
\* other than the defaults; update() then read the defaults into the
\* NumberObject, and the "min" property was set on the deleted object
C7_Witness ==
    /\ ~weak.nbx /\ numbox.x_val = 3 /\ numbox.x_fontsize = 12 /\ numbox.x_max = 1
    /\ numberObject.value = 0 /\ numberObject.max = PosInf
    /\ numberObject.min = 1 /\ numbox.x_min = 0

(***************************************************************************)
(* PlugDataParameter (Source/Utility/PluginParameter.h).  A float is a     *)
(* fixed-point number, an integer count of 1/Unit; a result that is not a  *)
(* multiple of 1/Unit is Inexact, and a call that yields one is left out.  *)
(* parameters holds the volume parameter and one PlugDataParameter (i = 1).*)
(***************************************************************************)
Unit == 16
Inexact == -1

Float == 1
Integer == 2
Logarithmic == 3
Exponential == 4

ParamAttrs == {"name", "min", "max", "enabled", "value", "index", "mode"}

\* "param" + String(i)
ParamId(i) == <<"param1", "param2">>[i]

ExactDiv(a, b) == IF a # Inexact /\ b # 0 /\ a % b = 0 THEN a \div b ELSE Inexact

\* std::pow(proportion, 4.0f), std::exp(std::log(proportion) / 0.25f)
Pow4(p) == IF p = Inexact THEN Inexact ELSE ExactDiv(p * p * p * p, Unit * Unit * Unit)

\* std::pow(proportion, 0.25f), std::exp(std::log(proportion) / 4.0f)
Root4(p) ==
    IF p # Inexact /\ \E q \in 0..Unit : q * q * q * q = p * Unit * Unit * Unit
    THEN CHOOSE q \in 0..Unit : q * q * q * q = p * Unit * Unit * Unit
    ELSE Inexact

clampTo0To1(p) == IF p = Inexact THEN Inexact ELSE Max2(0, Min2(p, Unit))

\* NormalisableRange<float>(start, end, interval, skew).convertTo0to1(v)
convertTo0to1(P, v) ==
    LET proportion == IF v = Inexact THEN Inexact
                      ELSE IF v <= P.rangeStart THEN 0
                      ELSE IF v >= P.rangeEnd THEN Unit
                      ELSE ExactDiv((v - P.rangeStart) * Unit, P.rangeEnd - P.rangeStart)
    IN IF P.rangeSkew = "1" THEN proportion
       ELSE IF P.rangeSkew = "4" THEN Pow4(proportion)
       ELSE Root4(proportion)

\* NormalisableRange<float>(start, end, interval, skew).convertFrom0to1(proportion)
convertFrom0to1(P, proportion) ==
    LET c == clampTo0To1(proportion)
        skewed == IF P.rangeSkew # "1" /\ c # Inexact /\ c > 0
                  THEN IF P.rangeSkew = "4" THEN Root4(c) ELSE Pow4(c)
                  ELSE c
        scaled == ExactDiv((P.rangeEnd - P.rangeStart) * skewed, Unit)
    IN IF skewed = Inexact \/ scaled = Inexact THEN Inexact ELSE P.rangeStart + scaled

\* std::floor
floor(v) == IF v = Inexact THEN Inexact ELSE (v \div Unit) * Unit

getValue(P) == convertTo0to1(P, P.value)

\* setValue: the new value, and the float handed to enqueueFunctionAsync when
\* the value changed
setValue(P, newValue) ==
    LET v == convertFrom0to1(P, newValue)
    IN [P EXCEPT !.value = v, !.sentFloat = IF v # P.value THEN v ELSE @]

setRange(P, min, max) == [P EXCEPT !.rangeStart = min, !.rangeEnd = max]

setMode(P, newMode) ==
    LET M == [P EXCEPT !.mode = newMode]
    IN IF newMode = Logarithmic THEN [M EXCEPT !.rangeSkew = "4"]
       ELSE IF newMode = Exponential THEN [M EXCEPT !.rangeSkew = "0.25"]
       ELSE IF newMode = Float THEN [M EXCEPT !.rangeSkew = "1"]
       ELSE IF newMode = Integer
            THEN LET I == [M EXCEPT !.rangeSkew = "1", !.rangeStart = floor(@),
                                    !.rangeEnd = floor(@)]
                 IN setValue(I, floor(getValue(I)))
       ELSE M

\* PlugDataParameter(p, "param1", 0.0f, false, 1, 0.0f, 1.0f)
NewParameter ==
    [parameterName |-> ParamId(1), rangeStart |-> 0, rangeEnd |-> Unit, rangeSkew |-> "1",
     mode |-> Float, value |-> 0, index |-> 1, enabled |-> FALSE, sentFloat |-> 0]

NoParamLog == [op |-> "none", saved |-> NewParameter, before |-> NewParameter, read |-> <<>>]

ParamInit ==
    /\ param = NewParameter
    /\ volume = Unit
    /\ xml = <<>>
    /\ paramLog = NoParamLog

\* every float of the parameter is on the fixed-point grid
Exact(P) == P.value # Inexact /\ getValue(P) # Inexact

\* the XmlElement saveStateInformation builds
saveStateInformation(vol, P) ==
    [id \in {"volume", ParamId(1)} |->
        IF id = "volume"
        THEN [a \in {"value"} |-> vol]
        ELSE [a \in ParamAttrs |->
                CASE a = "name" -> P.parameterName
                  [] a = "min" -> P.rangeStart
                  [] a = "max" -> P.rangeEnd
                  [] a = "enabled" -> IF P.enabled THEN 1 ELSE 0
                  [] a = "value" -> getValue(P)
                  [] a = "index" -> P.index
                  [] a = "mode" -> P.mode]]

\* loadStateInformation with "value" read after the range and the mode are set
loadStateInformation_lateValue(x, P) ==
    LET i == 1
        id == ParamId(i)
        Attr(a, default) == IF a \in DOMAIN x[id] THEN x[id][a] ELSE default
        ranged == setRange(P, Attr("min", 0), Attr("max", Unit))
        named == [ranged EXCEPT !.parameterName = Attr("name", ParamId(i)),
                                !.index = Attr("index", i)]
        moded == setMode(named, Attr("mode", Float))
        valued == setValue(moded, Attr("value", getValue(moded)))
    IN IF id \notin DOMAIN x THEN P
       ELSE [valued EXCEPT !.enabled = (Attr("enabled", 1) # 0)]

\* loadStateInformation: parameters[1] after the call
loadStateInformation(x, P) ==
    LET i == 1
        id == ParamId(i)
        Attr(a, default) == IF a \in DOMAIN x[id] THEN x[id][a] ELSE default
        navalue == Attr("value", getValue(P))
        ranged == setRange(P, Attr("min", 0), Attr("max", Unit))
        named == [ranged EXCEPT !.parameterName = Attr("name", ParamId(i)),
                                !.index = Attr("index", i)]
        moded == setMode(named, Attr("mode", Float))
        valued == setValue(moded, navalue)
    IN IF id \notin DOMAIN x THEN P
       ELSE [valued EXCEPT !.enabled = (Attr("enabled", 1) # 0)]

\* loadStateInformation: parameters[0] after the call
loadVolume(x, vol) ==
    IF "volume" \in DOMAIN x
    THEN clampTo0To1(IF "value" \in DOMAIN x["volume"] THEN x["volume"]["value"] ELSE vol)
    ELSE vol

\* the patch or the host changes the parameter, before any state is saved
Configure(P) ==
    /\ paramLog.op = "none"
    /\ Exact(P)
    /\ param' = P
    /\ UNCHANGED <<volume, xml, paramLog, notParamVars>>

HostSetVolume(v) ==
    /\ paramLog.op = "none"
    /\ volume' = v
    /\ UNCHANGED <<param, xml, paramLog, notParamVars>>

Save ==
    /\ paramLog.op = "none"
    /\ xml' = saveStateInformation(volume, param)
    /\ paramLog' = [paramLog EXCEPT !.op = "save", !.saved = param]
    /\ UNCHANGED <<param, volume, notParamVars>>

\* a new plugin instance is created before the state is loaded
Restart ==
    /\ paramLog.op = "save"
    /\ param # NewParameter
    /\ param' = NewParameter
    /\ volume' = Unit
    /\ UNCHANGED <<xml, paramLog, notParamVars>>

\* the saved state as an older version wrote it: without the children in
\* noChild, and the parameter's element without the attributes in noAttr
Legacy(x, noChild, noAttr) ==
    [id \in DOMAIN x \ noChild |->
        IF id = "volume" THEN x[id] ELSE [a \in DOMAIN x[id] \ noAttr |-> x[id][a]]]

Load(noChild, noAttr) ==
    LET x == Legacy(xml, noChild, noAttr)
    IN /\ paramLog.op = "save"
       /\ Exact(loadStateInformation(x, param))
       /\ param' = loadStateInformation(x, param)
       /\ volume' = loadVolume(x, volume)
       /\ paramLog' = [paramLog EXCEPT !.op = "load", !.before = param, !.read = x]
       /\ UNCHANGED <<xml, notParamVars>>

ParamRanges == {<<0, Unit>>, <<Unit \div 2, 5 * (Unit \div 2)>>}
ParamValues == {0, Unit \div 16, Unit \div 2, Unit}
LegacyAttrs == {{}, {"value", "min", "max"}, ParamAttrs} \cup {{a} : a \in ParamAttrs}

ParamNext ==
    \/ \E r \in ParamRanges : Configure(setRange(param, r[1], r[2]))
    \/ \E m \in {Float, Integer, Logarithmic, Exponential} : Configure(setMode(param, m))
    \/ \E v \in ParamValues : Configure(setValue(param, v))
    \/ Configure([param EXCEPT !.parameterName = "cutoff"])
    \/ Configure([param EXCEPT !.index = 3])
    \/ \E b \in BOOLEAN : Configure([param EXCEPT !.enabled = b])
    \/ HostSetVolume(0)
    \/ Save
    \/ Restart
    \/ \E noChild \in SUBSET {"volume", ParamId(1)}, noAttr \in LegacyAttrs : Load(noChild, noAttr)

\* what the round trip is to preserve
Saved(P) == <<P.parameterName, P.rangeStart, P.rangeEnd, P.enabled, P.index, P.mode, getValue(P)>>

(***************************************************************************)
(* C4: saveStateInformation followed by loadStateInformation of what it    *)
(* wrote leaves the parameter with the name, minimum, maximum, enabled     *)
(* flag, index, mode and normalised value it had when it was saved, in     *)
(* every mode.                                                             *)
(***************************************************************************)
C4_RoundTrip ==
    (paramLog.op = "load" /\ paramLog.read = xml) => Saved(param) = Saved(paramLog.saved)

(***************************************************************************)
(* C5: loadStateInformation leaves a parameter whose element is missing    *)
(* as it was; a missing attribute takes its default: name "param<i>",      *)
(* minimum 0, maximum 1, enabled, index i, mode Float; a missing value     *)
(* keeps the normalised value the parameter had.                           *)
(***************************************************************************)
C5_LoadDefaults ==
    paramLog.op = "load" =>
        LET x == paramLog.read
            id == ParamId(1)
            Missing(a) == a \notin DOMAIN x[id]
        IN IF id \notin DOMAIN x
           THEN param = paramLog.before
           ELSE /\ Missing("name") => param.parameterName = "param1"
                /\ Missing("min") => param.rangeStart = 0
                /\ Missing("max") => param.rangeEnd = Unit
                /\ Missing("enabled") => param.enabled
                /\ Missing("index") => param.index = 1
                /\ Missing("mode") => param.mode = Float /\ param.rangeSkew = "1"
                /\ Missing("value") => getValue(param) = getValue(paramLog.before)

\* a state was loaded that has neither value nor range: the parameter held a
\* normalised value of 1/2 in another range and mode, and a name, an index
\* and an enabled flag that are not the defaults
C5_Witness ==
    /\ paramLog.op = "load"
    /\ ParamId(1) \in DOMAIN paramLog.read
    /\ DOMAIN paramLog.read[ParamId(1)] = ParamAttrs \ {"value", "min", "max"}
    /\ paramLog.before.rangeStart = Unit \div 2
    /\ getValue(paramLog.before) = Unit \div 2
    /\ paramLog.before.parameterName = "cutoff"
    /\ paramLog.before.mode = Exponential

(***************************************************************************)
(* ConnectionPathUpdater (Source/Connection.h), StatusbarSource            *)
(* (Source/Statusbar.h) and the flash reset of BangObject                  *)
(* (unnamed/part_000).  Time advances in steps of TickMs milliseconds.     *)
(***************************************************************************)
FlushIntervalMs == 50
TickMs == 10
MaxQueue == 2

Connections == {"c1", "c2"}
PathStates == {"s1", "s2"}
Threads == {"message", "audio"}

\* pushPathState called from any thread
PathStateCallers_anyThread == Threads

\* the thread Connection code calls pushPathState from
PathStateCallers == {"message"}

\* the thread PluginProcessor calls StatusbarSource::process from
ProcessCallers == {"audio"}

\* juce::Timer runs timerCallback on the message thread
TimerThread == "message"

QueueInit ==
    /\ connectionUpdateQueue = <<>>
    /\ pathTimer = [running |-> FALSE, left |-> 0]
    /\ connAlive = [c \in Connections |-> TRUE]
    /\ pathLog = [calls |-> <<>>, sincePush |-> FlushIntervalMs, op |-> "none", age |-> 0]
    /\ midiQueues = [lastMidiSent |-> <<>>, lastMidiReceived |-> <<>>]
    /\ queueThreads = [q \in {"connectionUpdateQueue", "lastMidiSent", "lastMidiReceived"} |->
                          [producers |-> {}, consumers |-> {}]]
    /\ bang = [exists |-> TRUE, bangState |-> FALSE, pending |-> 0,
               resetAfterDestroy |-> FALSE, touchedAfterDestroy |-> FALSE]

\* juce::Timer::startTimer: (re)starts the countdown
startTimer(ms) == [running |-> TRUE, left |-> ms]

\* pushPathState that leaves a running timer alone
pushPathState_noRestart(queue, timer, connection, newPathState) ==
    [queue |-> Append(queue, [ptr |-> connection, safe |-> TRUE, state |-> newPathState]),
     timer |-> IF timer.running THEN timer ELSE startTimer(FlushIntervalMs)]

\* the queue and the timer after pushPathState(connection, newPathState); the
\* entry holds a Component::SafePointer
pushPathState(queue, timer, connection, newPathState) ==
    [queue |-> Append(queue, [ptr |-> connection, safe |-> TRUE, state |-> newPathState]),
     timer |-> startTimer(FlushIntervalMs)]

Uses(q, role, thread) == [queueThreads EXCEPT ![q][role] = @ \cup {thread}]

PushPathState(thread, connection, newPathState) ==
    LET r == pushPathState(connectionUpdateQueue, pathTimer, connection, newPathState)
    IN /\ connAlive[connection]
       /\ Len(connectionUpdateQueue) < MaxQueue
       /\ connectionUpdateQueue' = r.queue
       /\ pathTimer' = r.timer
       /\ pathLog' = [pathLog EXCEPT !.calls = Append(@, <<connection, newPathState>>),
                                     !.sincePush = 0, !.op = "pushPathState"]
       /\ queueThreads' = Uses("connectionUpdateQueue", "producers", thread)
       /\ UNCHANGED <<connAlive, midiQueues, bang, notQueueVars>>

\* TickMs milliseconds pass
Tick ==
    /\ pathLog.sincePush < FlushIntervalMs
    /\ pathTimer' = [pathTimer EXCEPT !.left = Max2(0, @ - TickMs)]
    /\ pathLog' = [pathLog EXCEPT !.sincePush = Min2(FlushIntervalMs, @ + TickMs), !.op = "tick"]
    /\ UNCHANGED <<connectionUpdateQueue, connAlive, midiQueues, queueThreads, bang, notQueueVars>>

\* ConnectionPathUpdater::timerCallback: takes every entry off the queue,
\* writes the path of each connection that still exists to the patch, and
\* stops the timer
PathTimerCallback ==
    /\ pathTimer.running /\ pathTimer.left = 0
    /\ connectionUpdateQueue' = <<>>
    /\ pathTimer' = [running |-> FALSE, left |-> 0]
    /\ pathLog' = [pathLog EXCEPT !.calls = <<>>, !.op = "timerCallback", !.age = pathLog.sincePush]
    /\ queueThreads' = Uses("connectionUpdateQueue", "consumers", TimerThread)
    /\ UNCHANGED <<connAlive, midiQueues, bang, notQueueVars>>

\* ~Connection: juce sets every Component::SafePointer to it to null
ConnectionDestroyed(connection) ==
    /\ connAlive[connection]
    /\ connAlive' = [connAlive EXCEPT ![connection] = FALSE]
    /\ connectionUpdateQueue' =
          [i \in 1..Len(connectionUpdateQueue) |->
              IF connectionUpdateQueue[i].ptr = connection /\ connectionUpdateQueue[i].safe
              THEN [connectionUpdateQueue[i] EXCEPT !.ptr = "null"]
              ELSE connectionUpdateQueue[i]]
    /\ UNCHANGED <<pathTimer, pathLog, midiQueues, queueThreads, bang, notQueueVars>>

UpdaterNext ==
    \/ \E t \in PathStateCallers, c \in Connections, s \in PathStates : PushPathState(t, c, s)
    \/ Tick
    \/ PathTimerCallback
    \/ \E c \in Connections : ConnectionDestroyed(c)

\* StatusbarSource::process: a MIDI message of the block is enqueued
StatusbarProcess(thread, q) ==
    /\ Len(midiQueues[q]) < MaxQueue
    /\ midiQueues' = [midiQueues EXCEPT ![q] = Append(@, "midi")]
    /\ queueThreads' = Uses(q, "producers", thread)
    /\ UNCHANGED <<connectionUpdateQueue, pathTimer, connAlive, pathLog, bang, notQueueVars>>

\* StatusbarSource::timerCallback: both queues are emptied
StatusbarTimerCallback ==
    /\ midiQueues' = [lastMidiSent |-> <<>>, lastMidiReceived |-> <<>>]
    /\ queueThreads' = [Uses("lastMidiSent", "consumers", TimerThread)
                           EXCEPT !["lastMidiReceived"]["consumers"] = @ \cup {TimerThread}]
    /\ UNCHANGED <<connectionUpdateQueue, pathTimer, connAlive, pathLog, bang, notQueueVars>>

QueuesNext ==
    \/ \E t \in PathStateCallers, c \in Connections, s \in PathStates : PushPathState(t, c, s)
    \/ Tick
    \/ PathTimerCallback
    \/ \E c \in Connections : ConnectionDestroyed(c)
    \/ \E t \in ProcessCallers, q \in {"lastMidiSent", "lastMidiReceived"} : StatusbarProcess(t, q)
    \/ StatusbarTimerCallback

\* BangObject::trigger
trigger ==
    /\ bang.exists
    /\ IF bang.bangState
       THEN UNCHANGED bang
       ELSE bang' = [bang EXCEPT !.bangState = TRUE, !.pending = @ + 1]
    /\ UNCHANGED <<connectionUpdateQueue, pathTimer, connAlive, pathLog, midiQueues, queueThreads,
                   notQueueVars>>

\* the delayed callback without the deletion check
FlashReset_unchecked(b) ==
    [b EXCEPT !.pending = @ - 1, !.bangState = FALSE,
              !.resetAfterDestroy = @ \/ ~b.exists,
              !.touchedAfterDestroy = @ \/ ~b.exists]

\* the callback trigger hands to Timer::callAfterDelay; deletionChecker is
\* null once the BangObject is destroyed
FlashReset(b) ==
    IF ~b.exists
    THEN [b EXCEPT !.pending = @ - 1, !.resetAfterDestroy = TRUE]
    ELSE [b EXCEPT !.pending = @ - 1, !.bangState = FALSE]

BangFlashReset ==
    /\ bang.pending > 0
    /\ bang' = FlashReset(bang)
    /\ UNCHANGED <<connectionUpdateQueue, pathTimer, connAlive, pathLog, midiQueues, queueThreads,
                   notQueueVars>>

\* ~BangObject
BangDestroyed ==
    /\ bang.exists
    /\ bang' = [bang EXCEPT !.exists = FALSE]
    /\ UNCHANGED <<connectionUpdateQueue, pathTimer, connAlive, pathLog, midiQueues, queueThreads,
                   notQueueVars>>

DestroyNext ==
    \/ \E t \in PathStateCallers, c \in Connections, s \in PathStates : PushPathState(t, c, s)
    \/ Tick
    \/ PathTimerCallback
    \/ \E c \in Connections : ConnectionDestroyed(c)
    \/ trigger
    \/ BangFlashReset
    \/ BangDestroyed

(***************************************************************************)
(* C1: every pushPathState call appends exactly one (connection, path      *)
(* state) entry, in call order, and no earlier entry is dropped or         *)
(* reordered; it restarts the timer at 50 ms, so that timerCallback runs   *)
(* only when 50 ms have passed since the most recent push.                 *)
(***************************************************************************)
C1_DebouncedQueue ==
    /\ Len(connectionUpdateQueue) = Len(pathLog.calls)
    /\ \A i \in 1..Len(connectionUpdateQueue) :
          /\ connectionUpdateQueue[i].ptr \in {pathLog.calls[i][1], "null"}
          /\ connectionUpdateQueue[i].state = pathLog.calls[i][2]
    /\ pathLog.op = "pushPathState" => pathTimer = [running |-> TRUE, left |-> 50]
    /\ pathTimer.running => pathTimer.left = Max2(0, 50 - pathLog.sincePush)
    /\ pathLog.op = "timerCallback" => pathLog.age >= 50

\* two pushes, the second later than the first and before the flush was due,
\* with different connections and path states
C1_Witness ==
    /\ Len(connectionUpdateQueue) = 2
    /\ connectionUpdateQueue[1].ptr # connectionUpdateQueue[2].ptr
    /\ connectionUpdateQueue[1].state # connectionUpdateQueue[2].state
    /\ pathTimer.running /\ pathTimer.left = 0
    /\ pathLog.sincePush >= 50

C6_NoUseAfterDestroy ==
    /\ ~bang.touchedAfterDestroy
    /\ \A i \in 1..Len(connectionUpdateQueue) :
          connectionUpdateQueue[i].ptr = "null" \/ connAlive[connectionUpdateQueue[i].ptr]

\* the pending reset of a lit BangObject ran after the object was destroyed,
\* and a queue entry points to a Connection destroyed after it was pushed
C6_Witness ==
    /\ bang.resetAfterDestroy /\ bang.bangState /\ bang.pending = 0
    /\ \E i \in 1..Len(connectionUpdateQueue) :
          /\ connectionUpdateQueue[i].ptr = "null"
          /\ ~connAlive[pathLog.calls[i][1]]

(***************************************************************************)
(* The callback lock around libpd structures: RadioObject                  *)
(* (unnamed/part_002), FloatAtomObject (unnamed/part_003) and              *)
(* PlugDataParameter::setValue.  A function is the sequence of its steps:  *)
(* "enter" and "exit" of the lock, "read" and "write" of a field of a      *)
(* libpd object.                                                           *)
(***************************************************************************)
LockInit ==
    /\ callbackLock = "none"
    /\ uiSteps = <<>>
    /\ audioSteps = <<>>
    /\ queuedFloats = 0

RadioObject_updateBounds == <<"enter", "read", "exit">>

RadioObject_applyBounds == <<"write">>

RadioObject_getValue == <<"read">>

\* valueChanged of the "max" Value: setMaximum
RadioObject_valueChanged == <<"write">>

FloatAtomObject_updateBounds == <<"enter", "read", "exit">>

\* libpd_moveobj, then te_width
FloatAtomObject_applyBounds == <<"write", "write">>

\* valueChanged of the "min" / "max" Value: setMinimum / setMaximum
FloatAtomObject_valueChanged == <<"write">>

\* the function setValue enqueues: lockAudioThread, sendFloat, unlockAudioThread
PlugDataParameter_sendFloat == <<"enter", "write", "exit">>

\* the audio callback: libpd processes a block under the callback lock
processBlock == <<"enter", "write", "exit">>

\* functions whose callers are not in the sources: the caller may hold the lock
CalledFromElsewhere == {RadioObject_applyBounds, RadioObject_getValue, FloatAtomObject_applyBounds}

\* functions juce or the object itself calls on the message thread, no lock held
CalledUnlocked == {RadioObject_updateBounds, FloatAtomObject_updateBounds,
                   RadioObject_valueChanged, FloatAtomObject_valueChanged}

Accessing(steps) == steps # <<>> /\ Head(steps) \in {"read", "write"}

\* the lock after `thread` has run the step `step`; an "enter" waits for the lock
LockAfter(thread, step) ==
    IF step = "enter" THEN thread ELSE IF step = "exit" THEN "none" ELSE callbackLock

UiCall(function, callerHoldsLock) ==
    /\ uiSteps = <<>>
    /\ uiSteps' = IF callerHoldsLock THEN <<"enter">> \o function \o <<"exit">> ELSE function
    /\ UNCHANGED <<callbackLock, audioSteps, queuedFloats, notLockVars>>

UiStep ==
    /\ uiSteps # <<>>
    /\ Head(uiSteps) = "enter" => callbackLock = "none"
    /\ callbackLock' = LockAfter("ui", Head(uiSteps))
    /\ uiSteps' = Tail(uiSteps)
    /\ UNCHANGED <<audioSteps, queuedFloats, notLockVars>>

\* PlugDataParameter::setValue with a value that differs: enqueueFunctionAsync
ParameterSetValue ==
    /\ uiSteps = <<>>
    /\ queuedFloats < MaxQueue
    /\ queuedFloats' = queuedFloats + 1
    /\ UNCHANGED <<callbackLock, uiSteps, audioSteps, notLockVars>>

\* an enqueued function is run
RunQueuedFunction ==
    /\ uiSteps = <<>>
    /\ queuedFloats > 0
    /\ queuedFloats' = queuedFloats - 1
    /\ uiSteps' = PlugDataParameter_sendFloat
    /\ UNCHANGED <<callbackLock, audioSteps, notLockVars>>

AudioCall ==
    /\ audioSteps = <<>>
    /\ audioSteps' = processBlock
    /\ UNCHANGED <<callbackLock, uiSteps, queuedFloats, notLockVars>>

AudioStep ==
    /\ audioSteps # <<>>
    /\ Head(audioSteps) = "enter" => callbackLock = "none"
    /\ callbackLock' = LockAfter("audio", Head(audioSteps))
    /\ audioSteps' = Tail(audioSteps)
    /\ UNCHANGED <<uiSteps, queuedFloats, notLockVars>>

LockNext ==
    \/ \E f \in CalledFromElsewhere, callerHoldsLock \in BOOLEAN : UiCall(f, callerHoldsLock)
    \/ \E f \in CalledUnlocked : UiCall(f, FALSE)
    \/ UiStep
    \/ ParameterSetValue
    \/ RunQueuedFunction
    \/ AudioCall
    \/ AudioStep

(***************************************************************************)
(* C2: the message thread reads and writes fields of libpd objects only    *)
(* while it holds the callback lock, so none of its accesses coincides     *)
(* with an access of the audio thread.                                     *)
(***************************************************************************)
C2_UiAccessUnderLock ==
    /\ Accessing(uiSteps) => callbackLock = "ui"
    /\ ~(Accessing(uiSteps) /\ Accessing(audioSteps))

(***************************************************************************)
(* SmallArray storage (Source/Utility/Containers.h): getNewCapacity.       *)
(* size_t has WordBits bits; Size_T is either as wide as size_t (uint64_t  *)
(* on a 64-bit build, uint32_t on a 32-bit build) or half as wide          *)
(* (uint32_t on a 64-bit build).                                           *)
(***************************************************************************)
WordBits == 4

\* std::numeric_limits<T>::max() of an unsigned type of `bits` bits
MaxOf(bits) == 2 ^ bits - 1

SizeTypeBits == {WordBits, WordBits \div 2}

\* std::clamp(v, lo, hi)
clamp(v, lo, hi) == IF v < lo THEN lo ELSE IF hi < v THEN hi ELSE v

\* getNewCapacity<Size_T>(MinSize, TSize, OldCapacity), Size_T of `bits` bits;
\* TSize is not used by the function
getNewCapacity(bits, MinSize, OldCapacity) ==
    LET MaxSize == MaxOf(bits)
        NewCapacity == (2 * OldCapacity + 1) % (2 ^ WordBits)
    IN IF MinSize > MaxSize THEN [threw |-> "report_size_overflow", value |-> 0]
       ELSE IF OldCapacity = MaxSize THEN [threw |-> "report_at_maximum_capacity", value |-> 0]
       ELSE [threw |-> "no", value |-> clamp(NewCapacity, MinSize, MaxSize)]

\* the inline capacity N of SmallArray<T, N>
InlineElts == 2

\* SmallArray(): empty, in the inline storage
SmallArray == [elems |-> <<>>, Capacity |-> InlineElts, isSmall |-> TRUE]

SmallInit ==
    /\ growCall = [bits |-> WordBits, MinSize |-> 0, OldCapacity |-> 0, op |-> "none",
                ret |-> [threw |-> "no", value |-> 0]]
    /\ small = [i \in 1..2 |-> SmallArray]
    /\ smallLog = [threw |-> FALSE, grows |-> {}]

\* a call with any size_t MinSize and any capacity a Size_T can hold
GetNewCapacity(bits, MinSize, OldCapacity) ==
    /\ growCall' = [bits |-> bits, MinSize |-> MinSize, OldCapacity |-> OldCapacity,
                    op |-> "getNewCapacity", ret |-> getNewCapacity(bits, MinSize, OldCapacity)]
    /\ UNCHANGED <<small, smallLog, notSmallVars>>

GrowNext ==
    \E bits \in SizeTypeBits, MinSize \in 0..MaxOf(WordBits) :
        \E OldCapacity \in 0..MaxOf(bits) : GetNewCapacity(bits, MinSize, OldCapacity)

(***************************************************************************)
(* C11: getNewCapacity throws std::length_error exactly when MinSize is    *)
(* above the maximum of the size type or OldCapacity equals that maximum;  *)
(* otherwise it returns clamp(2 * OldCapacity + 1, MinSize, MaxSize),      *)
(* which is strictly greater than OldCapacity and at least MinSize.        *)
(***************************************************************************)
C11_NewCapacityGrows ==
    growCall.op = "getNewCapacity" =>
        LET MaxSize == MaxOf(growCall.bits)
        IN IF growCall.MinSize > MaxSize \/ growCall.OldCapacity = MaxSize
           THEN growCall.ret.threw # "no"
           ELSE /\ growCall.ret.threw = "no"
                /\ growCall.ret.value = clamp(2 * growCall.OldCapacity + 1, growCall.MinSize, MaxSize)
                /\ growCall.ret.value > growCall.OldCapacity
                /\ growCall.ret.value >= growCall.MinSize

(***************************************************************************)
(* SmallArray<T, InlineElts> of a trivially copyable T whose Size_T is     *)
(* narrower than size_t (uint32_t on a 64-bit build), so that the maximum  *)
(* capacity is small enough to be reached.  An array is its elements       *)
(* [0, Size), its Capacity and whether BeginX points at the inline         *)
(* storage.  An operation returns the array(s) it leaves behind, whether   *)
(* getNewCapacity threw out of it, and the storage growths it made (the    *)
(* elements before and after each).                                        *)
(***************************************************************************)
SizeBits == WordBits \div 2

Elts == {0, 1}

\* T()
DefaultElt == 0

size(a) == Len(a.elems)

Ok(a) == [a |-> a, threw |-> FALSE, grows |-> {}]

Fill(n, Elt) == [k \in 1..n |-> Elt]

set_size(a, N) ==
    [a EXCEPT !.elems = IF N <= size(a) THEN SubSeq(a.elems, 1, N)
                        ELSE a.elems \o Fill(N - size(a), DefaultElt)]

resetToSmall(a) == [elems |-> <<>>, Capacity |-> 0, isSmall |-> TRUE]

\* a copy that stops one element short
grow_pod_copy_short(a) == SubSeq(a.elems, 1, size(a) - 1)

\* memcpy(NewElts, this->BeginX, size() * TSize), or realloc
grow_pod_copy(a) == SubSeq(a.elems, 1, size(a))

grow_pod(a, MinSize) ==
    LET NewCapacity == getNewCapacity(SizeBits, MinSize, a.Capacity)
    IN IF NewCapacity.threw # "no" THEN [a |-> a, threw |-> TRUE, grows |-> {}]
       ELSE LET NewElts == grow_pod_copy(a)
            IN [a |-> [elems |-> NewElts, Capacity |-> NewCapacity.value, isSmall |-> FALSE],
                threw |-> FALSE,
                grows |-> {[before |-> a.elems, after |-> NewElts]}]

SmallArray_reserve(a, N) == IF a.Capacity < N THEN grow_pod(a, N) ELSE Ok(a)

reserveForParamAndGetAddress(a, N) ==
    LET NewSize == (size(a) + N) % (2 ^ WordBits)
    IN IF NewSize <= a.Capacity THEN Ok(a) ELSE grow_pod(a, NewSize)

push_back(a, Elt) ==
    LET r == reserveForParamAndGetAddress(a, 1)
    IN IF r.threw THEN r ELSE [r EXCEPT !.a.elems = Append(@, Elt)]

emplace_back(a, Elt) ==
    IF size(a) >= a.Capacity THEN push_back(a, Elt)
    ELSE Ok([a EXCEPT !.elems = Append(@, Elt)])

pop_back(a) == Ok([a EXCEPT !.elems = SubSeq(@, 1, size(a) - 1)])

SmallArray_clear(a) == [a EXCEPT !.elems = <<>>]

truncate(a, N) == [a EXCEPT !.elems = SubSeq(@, 1, N)]

resize(a, N) ==
    IF N = size(a) THEN Ok(a)
    ELSE IF N < size(a) THEN Ok(truncate(a, N))
    ELSE LET r == SmallArray_reserve(a, N)
         IN IF r.threw THEN r ELSE [r EXCEPT !.a = set_size(@, N)]

growAndAssign(a, NumElts, Elt) ==
    LET r == grow_pod(set_size(a, 0), NumElts)
    IN IF r.threw THEN r ELSE [r EXCEPT !.a.elems = Fill(NumElts, Elt)]

assign(a, NumElts, Elt) ==
    IF NumElts > a.Capacity THEN growAndAssign(a, NumElts, Elt)
    ELSE Ok([a EXCEPT !.elems = Fill(NumElts, Elt)])

\* erase(begin() + index), index < size()
SmallArray_eraseAt(a, index) ==
    LET moved == [k \in 1..size(a) |-> IF k > index /\ k < size(a) THEN a.elems[k + 1] ELSE a.elems[k]]
    IN pop_back([a EXCEPT !.elems = moved])

\* insert(index, value), index <= size(); index counts from 0
SmallArray_insert(a, index, Elt) ==
    IF index = size(a) THEN push_back(a, Elt)
    ELSE LET r == reserveForParamAndGetAddress(a, 1)
             e == r.a.elems
             pushed == [k \in 1..(Len(e) + 1) |->
                           IF k <= index THEN e[k] ELSE IF k = index + 1 THEN Elt ELSE e[k - 1]]
         IN IF r.threw THEN r ELSE [r EXCEPT !.a.elems = pushed]

Ok2(a, b) == [a |-> a, b |-> b, threw |-> FALSE, grows |-> {}]

swap(this, RHS) ==
    IF ~this.isSmall /\ ~RHS.isSmall THEN Ok2(RHS, this)
    ELSE LET r1 == SmallArray_reserve(this, size(RHS))
             r2 == SmallArray_reserve(RHS, size(this))
         IN IF r1.threw THEN [a |-> r1.a, b |-> RHS, threw |-> TRUE, grows |-> r1.grows]
            ELSE IF r2.threw THEN [a |-> r1.a, b |-> r2.a, threw |-> TRUE, grows |-> r1.grows \cup r2.grows]
            ELSE [a |-> [r1.a EXCEPT !.elems = RHS.elems], b |-> [r2.a EXCEPT !.elems = this.elems],
                  threw |-> FALSE, grows |-> r1.grows \cup r2.grows]

\* operator=(SmallArrayImpl const&); the copy and the move differ in what
\* they leave in RHS
AssignElements(this, RHS) ==
    IF size(this) >= size(RHS) THEN Ok([this EXCEPT !.elems = RHS.elems])
    ELSE IF this.Capacity < size(RHS)
         THEN LET r == grow_pod(SmallArray_clear(this), size(RHS))
              IN IF r.threw THEN r ELSE [r EXCEPT !.a.elems = RHS.elems]
         ELSE Ok([this EXCEPT !.elems = RHS.elems])

copy_assign(this, RHS) ==
    LET r == AssignElements(this, RHS) IN [a |-> r.a, b |-> RHS, threw |-> r.threw, grows |-> r.grows]

assignRemote(this, RHS) ==
    Ok2([elems |-> RHS.elems, Capacity |-> RHS.Capacity, isSmall |-> FALSE], resetToSmall(RHS))

move_assign(this, RHS) ==
    IF ~RHS.isSmall THEN assignRemote(this, RHS)
    ELSE LET r == AssignElements(this, RHS)
         IN [a |-> r.a, b |-> IF r.threw THEN RHS ELSE SmallArray_clear(RHS),
             threw |-> r.threw, grows |-> r.grows]

SmallArrays == 1..2

Other(i) == 3 - i

\* what one operation leaves in the array it was called on
Result(i, r) ==
    /\ small' = [small EXCEPT ![i] = r.a]
    /\ smallLog' = [threw |-> r.threw, grows |-> r.grows]
    /\ UNCHANGED <<growCall, notSmallVars>>

\* what an operation on two arrays leaves in both
Result2(i, r) ==
    /\ small' = [small EXCEPT ![i] = r.a, ![Other(i)] = r.b]
    /\ smallLog' = [threw |-> r.threw, grows |-> r.grows]
    /\ UNCHANGED <<growCall, notSmallVars>>

PushBack(i, Elt) == Result(i, push_back(small[i], Elt))

EmplaceBack(i, Elt) == Result(i, emplace_back(small[i], Elt))

Insert(i, index, Elt) == index <= size(small[i]) /\ Result(i, SmallArray_insert(small[i], index, Elt))

Erase(i, index) == index < size(small[i]) /\ Result(i, SmallArray_eraseAt(small[i], index))

Pop(i) == size(small[i]) > 0 /\ Result(i, pop_back(small[i]))

Resize(i, N) == Result(i, resize(small[i], N))

Reserve(i, N) == Result(i, SmallArray_reserve(small[i], N))

Assign(i, NumElts, Elt) == Result(i, assign(small[i], NumElts, Elt))

Clear(i) == Result(i, Ok(SmallArray_clear(small[i])))

Swap(i) == Result2(i, swap(small[i], small[Other(i)]))

CopyAssign(i) == Result2(i, copy_assign(small[i], small[Other(i)]))

MoveAssign(i) == Result2(i, move_assign(small[i], small[Other(i)]))

\* the size_t arguments: every size the Size_T can hold, one above, and the largest size_t
SizeArgs == (0..(MaxOf(SizeBits) + 1)) \cup {MaxOf(WordBits)}

SmallNext ==
    \/ \E i \in SmallArrays, Elt \in Elts : PushBack(i, Elt)
    \/ \E i \in SmallArrays, Elt \in Elts : EmplaceBack(i, Elt)
    \/ \E i \in SmallArrays, Elt \in Elts, index \in SizeArgs : Insert(i, index, Elt)
    \/ \E i \in SmallArrays, index \in SizeArgs : Erase(i, index)
    \/ \E i \in SmallArrays : Pop(i)
    \/ \E i \in SmallArrays, N \in SizeArgs : Resize(i, N)
    \/ \E i \in SmallArrays, N \in SizeArgs : Reserve(i, N)
    \/ \E i \in SmallArrays, N \in SizeArgs, Elt \in Elts : Assign(i, N, Elt)
    \/ \E i \in SmallArrays : Clear(i)
    \/ \E i \in SmallArrays : Swap(i)
    \/ \E i \in SmallArrays : CopyAssign(i)
    \/ \E i \in SmallArrays : MoveAssign(i)

(***************************************************************************)
(* C12: after any sequence of the operations size() <= capacity() (the     *)
(* assertion of set_size holds), and a growth of the storage leaves the    *)
(* sequence of elements as it was.                                         *)
(***************************************************************************)
C12_SizeWithinCapacity ==
    /\ \A i \in SmallArrays : size(small[i]) <= small[i].Capacity
    /\ \A g \in smallLog.grows : g.after = g.before

\* a moved-from array was used again and its storage grew with elements in it
C12_Witness ==
    /\ \E g \in smallLog.grows : Len(g.before) > 0
    /\ \E i \in SmallArrays : ~small[i].isSmall /\ size(small[i]) = MaxOf(SizeBits)
    /\ \E i \in SmallArrays : small[i].isSmall /\ small[i].Capacity = 0

(***************************************************************************)
(* OfflineObjectRenderer::stripConnections                                 *)
(* (Source/Utility/OfflineObjectRenderer.cpp).  A String is a sequence of  *)
(* pieces of text: the prefix "#X connect", any other text without a       *)
(* newline, and the newline.                                               *)
(***************************************************************************)
MaxPatch == 4

Pieces == {"#X connect", "#X obj", "\n"}

RECURSIVE StringsUpTo(_)
StringsUpTo(n) ==
    IF n = 0 THEN {<<>>}
    ELSE LET shorter == StringsUpTo(n - 1)
         IN shorter \cup {Append(s, p) : s \in {t \in shorter : Len(t) = n - 1}, p \in Pieces}

Patches == StringsUpTo(MaxPatch)

\* String::startsWith
startsWith(s, prefix) ==
    /\ Len(prefix) <= Len(s)
    /\ SubSeq(s, 1, Len(prefix)) = prefix

\* CharacterFunctions::findEndOfToken without quote characters: the position
\* of the first break character at or after t, or one past the end
RECURSIVE findEndOfToken(_, _, _)
findEndOfToken(text, t, breakCharacters) ==
    IF t > Len(text) \/ text[t] \in breakCharacters THEN t
    ELSE findEndOfToken(text, t + 1, breakCharacters)

\* StringArray::addTokens(text, breakCharacters, StringRef()) from position t:
\* the token up to the next break character, and, if a break character ended
\* it, the tokens of what follows it, an empty last token included
RECURSIVE TokensFrom(_, _, _)
TokensFrom(text, t, breakCharacters) ==
    LET tokenEnd == findEndOfToken(text, t, breakCharacters)
        token == SubSeq(text, t, tokenEnd - 1)
    IN IF tokenEnd > Len(text) THEN <<token>>
       ELSE <<token>> \o TokensFrom(text, tokenEnd + 1, breakCharacters)

addTokens(text, breakCharacters) ==
    IF text = <<>> THEN <<>> ELSE TokensFrom(text, 1, breakCharacters)

\* the loop over lines.size() - 1 .. 0 that removes line i if it starts with "#X connect"
RECURSIVE RemoveConnectLines(_, _)
RemoveConnectLines(lines, i) ==
    IF i < 1 THEN lines
    ELSE IF startsWith(lines[i], <<"#X connect">>)
         THEN RemoveConnectLines(SubSeq(lines, 1, i - 1) \o SubSeq(lines, i + 1, Len(lines)), i - 1)
         ELSE RemoveConnectLines(lines, i - 1)

\* a join that puts the newline between the lines only
RECURSIVE JoinLines_between(_)
JoinLines_between(lines) ==
    IF lines = <<>> THEN <<>>
    ELSE IF Len(lines) = 1 THEN Head(lines)
    ELSE Head(lines) \o <<"\n">> \o JoinLines_between(Tail(lines))

\* the loop strippedPatch += line + "\n"
RECURSIVE JoinLines(_)
JoinLines(lines) ==
    IF lines = <<>> THEN <<>>
    ELSE Head(lines) \o <<"\n">> \o JoinLines(Tail(lines))

stripConnections(patch) ==
    LET lines == addTokens(patch, {"\n"})
    IN JoinLines(RemoveConnectLines(lines, Len(lines)))

StripInit == stripCall = [op |-> "none", patch |-> <<>>, stripped |-> <<>>, again |-> <<>>]

\* stripConnections(patch), and stripConnections of what it returned
StripConnections(patch) ==
    /\ stripCall' = [op |-> "stripConnections", patch |-> patch,
                     stripped |-> stripConnections(patch),
                     again |-> stripConnections(stripConnections(patch))]
    /\ UNCHANGED notStripVars

StripNext == \E patch \in Patches : StripConnections(patch)

\* the lines of a patch: the text between its newlines
NewlinesOf(s) == {k \in 1..Len(s) : s[k] = "\n"}

LineStarts(s) == {1} \cup {k + 1 : k \in NewlinesOf(s)}

LineAt(s, start) ==
    LET ends == {k \in NewlinesOf(s) : k >= start}
    IN SubSeq(s, start, IF ends = {} THEN Len(s) ELSE (CHOOSE k \in ends : \A e \in ends : k <= e) - 1)

RECURSIVE SortedSeq(_)
SortedSeq(S) ==
    IF S = {} THEN <<>>
    ELSE LET least == CHOOSE k \in S : \A e \in S : k <= e
         IN <<least>> \o SortedSeq(S \ {least})

LinesOf(s) ==
    IF s = <<>> THEN <<>>
    ELSE LET starts == SortedSeq(LineStarts(s)) IN [n \in 1..Len(starts) |-> LineAt(s, starts[n])]

IsConnectLine(line) == line # <<>> /\ line[1] = "#X connect"

NotConnectLine(line) == ~IsConnectLine(line)

(***************************************************************************)
(* C13 as stated: stripConnections returns the lines of the patch in their *)
(* order, with exactly those that start with "#X connect" removed, and     *)
(* stripConnections of its own output is that output.                      *)
(***************************************************************************)
C13_StripIdempotent ==
    stripCall.op = "stripConnections" =>
        /\ LinesOf(stripCall.stripped) = SelectSeq(LinesOf(stripCall.patch), NotConnectLine)
        /\ stripCall.again = stripCall.stripped

(***************************************************************************)
(* C13 as the code has it: stripConnections returns the lines of the patch *)
(* in their order, without those that start with "#X connect", each        *)
(* followed by a newline; the text after the last newline counts as a      *)
(* line, also when it is empty, so a non-empty result has one empty line   *)
(* more at its end than the patch had, and stripConnections of a non-empty *)
(* result is that result with one more newline.                            *)
(***************************************************************************)
C13_StripConnections ==
    stripCall.op = "stripConnections" =>
        LET kept == SelectSeq(LinesOf(stripCall.patch), NotConnectLine)
        IN /\ \A n \in 1..Len(kept) : ~startsWith(kept[n], <<"#X connect">>)
           /\ LinesOf(stripCall.stripped) = IF kept = <<>> THEN <<>> ELSE kept \o <<<<>>>>
           /\ stripCall.stripped # <<>> => stripCall.stripped[Len(stripCall.stripped)] = "\n"
           /\ stripCall.again = IF stripCall.stripped = <<>> THEN <<>>
                                ELSE stripCall.stripped \o <<"\n">>

\* a patch with a connection after another line, and a newline at its end, was stripped
C13_Witness ==
    /\ stripCall.op = "stripConnections"
    /\ stripCall.patch = <<"#X obj", "\n", "#X connect", "\n">>
    /\ stripCall.stripped = <<"#X obj", "\n", "\n">>
    /\ stripCall.again = <<"#X obj", "\n", "\n", "\n">>

(***************************************************************************)
(* BangObject (Source/Objects/BangObject.h): trigger, the flash timer and  *)
(* the drag gesture.  Times are in milliseconds with all values scaled     *)
(* down; the millisecond counter is an unsigned integer of WordBits bits   *)
(* and only its distance from lastBang, which is all that trigger reads,   *)
(* is kept.                                                                *)
(***************************************************************************)
\* "Min. flash time" and "Max. flash time", as the inspector or a flashtime
\* message may set them; the members start as bangInterrupt > bangHold
FlashTimes == {[bangInterrupt |-> 3, bangHold |-> 2], [bangInterrupt |-> 1, bangHold |-> 4],
               [bangInterrupt |-> 1, bangHold |-> -1]}

NoTrigger == [triggered |-> FALSE, wasLit |-> FALSE, before |-> <<>>, scheduled |-> <<>>]

BngInit ==
    /\ bng = [bangState |-> FALSE, alreadyBanged |-> FALSE, bangInterrupt |-> 3, bangHold |-> 2,
              sinceLast |-> 0]
    /\ bngTimers = <<>>
    /\ bngLog = NoTrigger
    /\ dragLog = [bng |-> NoGesture, tgl |-> NoGesture]

\* the conversion of an int to unsigned int
ToUnsigned(n) == n % (2 ^ WordBits)

\* BangObject::trigger: the object it leaves, and the delays it hands to
\* Timer::callAfterDelay
BangObject_trigger(b) ==
    IF b.bangState THEN [bng |-> b, scheduled |-> <<>>]
    ELSE LET timeSinceLast == b.sinceLast
             held == IF timeSinceLast < ToUnsigned(b.bangHold * 2)
                     THEN timeSinceLast \div 2
                     ELSE b.bangHold
             holdTime == IF held < b.bangInterrupt THEN b.bangInterrupt ELSE held
         IN [bng |-> [b EXCEPT !.bangState = TRUE, !.sinceLast = 0], scheduled |-> <<holdTime>>]

\* toggleObject without the alreadyBanged check
BangObject_toggleObject_unchecked(b) ==
    LET t == BangObject_trigger(b)
    IN [bng |-> [t.bng EXCEPT !.alreadyBanged = TRUE], scheduled |-> t.scheduled, sent |-> 1,
        triggered |-> TRUE]

\* BangObject::toggleObject; ptr refers to a live object
BangObject_toggleObject(b) ==
    IF ~b.alreadyBanged
    THEN LET t == BangObject_trigger(b)
         IN [bng |-> [t.bng EXCEPT !.alreadyBanged = TRUE], scheduled |-> t.scheduled, sent |-> 1,
             triggered |-> TRUE]
    ELSE [bng |-> b, scheduled |-> <<>>, sent |-> 0, triggered |-> FALSE]

BangObject_untoggleObject(b) == [b EXCEPT !.alreadyBanged = FALSE]

\* BangObject::mouseDown
BangObject_mouseDown(b, isLeftButtonDown) ==
    IF ~isLeftButtonDown THEN [bng |-> b, scheduled |-> <<>>, sent |-> 0, triggered |-> FALSE]
    ELSE LET t == BangObject_trigger([b EXCEPT !.alreadyBanged = TRUE])
         IN [bng |-> t.bng, scheduled |-> t.scheduled, sent |-> 1, triggered |-> TRUE]

\* BangObject::receiveObjectMessage; wasIemMessage is what
\* iemHelper.receiveObjectMessage returns for a symbol the switch does not name
BangObject_receiveObjectMessage(b, symbol, atoms, wasIemMessage) ==
    CASE symbol \in {"float", "bang", "list"} ->
             LET t == BangObject_trigger(b)
             IN [bng |-> t.bng, scheduled |-> t.scheduled, triggered |-> TRUE]
      [] symbol = "flashtime" ->
             [bng |-> [b EXCEPT !.bangInterrupt = IF Len(atoms) > 0 THEN atoms[1] ELSE @,
                                !.bangHold = IF Len(atoms) > 1 THEN atoms[2] ELSE @],
              scheduled |-> <<>>, triggered |-> FALSE]
      [] symbol \in {"pos", "size", "loadbang"} ->
             [bng |-> b, scheduled |-> <<>>, triggered |-> FALSE]
      [] OTHER ->
             IF ~wasIemMessage
             THEN LET t == BangObject_trigger(b)
                  IN [bng |-> t.bng, scheduled |-> t.scheduled, triggered |-> TRUE]
             ELSE [bng |-> b, scheduled |-> <<>>, triggered |-> FALSE]

\* Timer::callAfterDelay: a delay below a millisecond runs the callback as soon as possible
callAfterDelay(timers, scheduled) ==
    timers \o [k \in 1..Len(scheduled) |-> Max2(scheduled[k], 0)]

\* what a handler that may have run trigger leaves in the log
TriggerLog(b, r) ==
    IF r.triggered
    THEN [triggered |-> TRUE, wasLit |-> b.bangState,
          before |-> IF b.bangState THEN <<b.bangState, b.sinceLast, bngTimers>> ELSE <<>>,
          scheduled |-> r.scheduled]
    ELSE NoTrigger

ReceiveObjectMessage(symbol, atoms, wasIemMessage) ==
    LET r == BangObject_receiveObjectMessage(bng, symbol, atoms, wasIemMessage)
    IN /\ bng' = r.bng
       /\ bngTimers' = callAfterDelay(bngTimers, r.scheduled)
       /\ bngLog' = TriggerLog(bng, r)
       /\ UNCHANGED <<dragLog, notBngVars>>

MouseDownOnBang(isLeftButtonDown) ==
    LET r == BangObject_mouseDown(bng, isLeftButtonDown)
    IN /\ bng' = r.bng
       /\ bngTimers' = callAfterDelay(bngTimers, r.scheduled)
       /\ bngLog' = TriggerLog(bng, r)
       /\ dragLog' = IF isLeftButtonDown THEN [dragLog EXCEPT !.bng = Pressed] ELSE dragLog
       /\ UNCHANGED notBngVars

ToggleBang ==
    LET r == BangObject_toggleObject(bng)
    IN /\ bng' = r.bng
       /\ bngTimers' = callAfterDelay(bngTimers, r.scheduled)
       /\ bngLog' = TriggerLog(bng, r)
       /\ dragLog' = [dragLog EXCEPT !.bng = Toggled(@, r.sent)]
       /\ UNCHANGED notBngVars

UntoggleBang ==
    /\ bng' = BangObject_untoggleObject(bng)
    /\ bngLog' = NoTrigger
    /\ dragLog' = [dragLog EXCEPT !.bng = Untoggled]
    /\ UNCHANGED <<bngTimers, notBngVars>>

\* a millisecond passes; a callback that is due runs first
BangTick ==
    /\ \A k \in 1..Len(bngTimers) : bngTimers[k] > 0
    /\ bng' = [bng EXCEPT !.sinceLast = (@ + 1) % (2 ^ WordBits)]
    /\ bngTimers' = [k \in 1..Len(bngTimers) |-> bngTimers[k] - 1]
    /\ bngLog' = NoTrigger
    /\ UNCHANGED <<dragLog, notBngVars>>

\* the callback of trigger; the object exists, so deletionChecker is not null
BangTimerCallback ==
    \E k \in 1..Len(bngTimers) :
        /\ bngTimers[k] = 0
        /\ bngTimers' = SubSeq(bngTimers, 1, k - 1) \o SubSeq(bngTimers, k + 1, Len(bngTimers))
        /\ bng' = IF bng.bangState THEN [bng EXCEPT !.bangState = FALSE] ELSE bng
        /\ bngLog' = NoTrigger
        /\ UNCHANGED <<dragLog, notBngVars>>

BangNext ==
    \/ \E symbol \in {"bang", "pos", "color"}, wasIemMessage \in BOOLEAN :
           ReceiveObjectMessage(symbol, <<>>, wasIemMessage)
    \/ \E t \in FlashTimes : ReceiveObjectMessage("flashtime", <<t.bangInterrupt, t.bangHold>>, FALSE)
    \/ \E isLeftButtonDown \in BOOLEAN : MouseDownOnBang(isLeftButtonDown)
    \/ ToggleBang
    \/ UntoggleBang
    \/ BangTick
    \/ BangTimerCallback

(***************************************************************************)
(* C15: trigger changes nothing while the indicator is lit; otherwise it   *)
(* lights the indicator and schedules exactly one reset after a hold time  *)
(* h with bangInterrupt <= h <= max(bangHold, bangInterrupt); at most one  *)
(* reset is pending at any time.                                           *)
(***************************************************************************)
C15_TriggerFlash ==
    /\ bngLog.triggered /\ bngLog.wasLit =>
           /\ bngLog.scheduled = <<>>
           /\ bngLog.before = <<bng.bangState, bng.sinceLast, bngTimers>>
    /\ bngLog.triggered /\ ~bngLog.wasLit =>
           /\ bng.bangState
           /\ Len(bngLog.scheduled) = 1
           /\ bng.bangInterrupt <= bngLog.scheduled[1]
           /\ bngLog.scheduled[1] <= Max2(bng.bangHold, bng.bangInterrupt)
    /\ Len(bngTimers) <= 1

\* C15, the parts that do not depend on the length of the hold time
C15_OneResetPending ==
    /\ bngLog.triggered /\ bngLog.wasLit =>
           /\ bngLog.scheduled = <<>>
           /\ bngLog.before = <<bng.bangState, bng.sinceLast, bngTimers>>
    /\ bngLog.triggered /\ ~bngLog.wasLit =>
           /\ bng.bangState
           /\ Len(bngLog.scheduled) = 1
           /\ bng.bangInterrupt <= bngLog.scheduled[1]
    /\ Len(bngTimers) = IF bng.bangState THEN 1 ELSE 0

\* C15, the hold time while "Max. flash time" is not negative
C15_HoldTimeWithinFlashTimes ==
    bngLog.triggered /\ ~bngLog.wasLit /\ bng.bangHold >= 0 =>
        bngLog.scheduled[1] <= Max2(bng.bangHold, bng.bangInterrupt)

\* C15, while the object exists a lit indicator is eventually turned off
C15_EventuallyOff == bng.bangState ~> ~bng.bangState

\* the drag gesture on a BangObject and on a ToggleObject, with time passing
GestureNext ==
    \/ \E isLeftButtonDown \in BOOLEAN : MouseDownOnBang(isLeftButtonDown)
    \/ ToggleBang
    \/ UntoggleBang
    \/ BangTick
    \/ BangTimerCallback
    \/ ToggleObject_mouseDown
    \/ ToggleObject_toggleObject
    \/ ToggleObject_untoggleObject

\* after a mouseDown the toggleObject calls have sent nothing; after an
\* untoggleObject they have sent one bang or toggle, the first of them
SentInGesture(g) ==
    /\ g.lastEvent = "mouseDown" => g.sends = 0
    /\ g.lastEvent = "untoggleObject" => g.sends = Min2(g.toggles, 1)

InitAll == ArrInit /\ PoolInit /\ GuiInit /\ ParamInit /\ QueueInit /\ LockInit /\ SmallInit /\ StripInit /\ BngInit

\* HeapArray / SmallArray
SpecArr == InitAll /\ [][ArrNext]_vars

\* PooledPtrArray
SpecPool == InitAll /\ [][PoolNext]_vars

\* NumberObject / ToggleObject
SpecGui == InitAll /\ [][GuiNext]_vars

\* PlugDataParameter
SpecParam == InitAll /\ [][ParamNext]_vars

\* ConnectionPathUpdater
SpecUpdater == InitAll /\ [][UpdaterNext]_vars

\* ConnectionPathUpdater and StatusbarSource: the lock-free queues
SpecQueues == InitAll /\ [][QueuesNext]_vars

\* ConnectionPathUpdater and BangObject: destruction of components
SpecDestroy == InitAll /\ [][DestroyNext]_vars

\* the callback lock
SpecLock == InitAll /\ [][LockNext]_vars

\* getNewCapacity
SpecGrow == InitAll /\ [][GrowNext]_vars
\* SmallArray under any sequence of calls
SpecSmall == InitAll /\ [][SmallNext]_vars

\* stripConnections on any patch
SpecStrip == InitAll /\ [][StripNext]_vars

\* the BangObject under messages, mouse gestures and the passing of time
SpecBang == InitAll /\ [][BangNext]_vars
\* the same, with time passing and due callbacks run by the message loop
SpecBangLive == InitAll /\ [][BangNext]_vars /\ WF_vars(BangTick) /\ WF_vars(BangTimerCallback)

\* drag gestures on a BangObject and a ToggleObject
SpecGesture == InitAll /\ [][GestureNext]_vars

====
